---- MODULE Spec2Model ----
(***************************************************************************)
(* Model of the helper layer of db-drivers:                                *)
(*   - src/src/helpers/ResourceHelper.ts : diff, runRuleEngine             *)
(*   - src/unnamed/part_001              : bind-parameter normalization    *)
(* Strings are sequences of one-character strings, so that joining,        *)
(* splitting and matching are computed and not assumed.                    *)
(***************************************************************************)
EXTENDS Integers, Sequences, FiniteSets, TLC

VARIABLES rdh1, rdh2, tableRule, res, calls, sql, bindParams, out,
          viewConditions, stmtKeys, stmtValues, stmtConditions,
          database, conRes, isConnected, flow, log

\* the arguments of the statement builders: the columns (RdhKey[]), the
\* values object and the conditions object
stmtVars == <<stmtKeys, stmtValues, stmtConditions>>

\* the database resource whose default schema is reset, and the driver's
\* connection setting
schemaVars == <<database, conRes>>

\* the driver's connection flag, the activation of flowTransaction (its
\* position and locals) and the calls it has made on the driver
txVars == <<isConnected, flow, log>>

\* what the operations on result sets and queries leave alone
otherVars == <<stmtVars, schemaVars, txVars>>

vars ==
  <<rdh1, rdh2, tableRule, res, calls, sql, bindParams, out, viewConditions,
    otherVars>>

(***************************************************************************)
(* Bounds                                                                  *)
(***************************************************************************)
\* total number of rows of the two result sets of one comparison
MaxRows == 3
\* number of diff / validate calls made on the same result sets
MaxCalls == 3
\* number of rules of a rule set, and the largest limit of a rule
MaxRules == 2
MaxLimit == 2
\* number of pieces a query text is put together from
MaxPieces == 3
\* length of the longest array bound to a parameter
MaxArr == 2
\* number of conditions directly under the root of a tree of conditions
MaxItems == 2

(***************************************************************************)
(* Values of a cell                                                        *)
(***************************************************************************)
Undefined == [t |-> "undefined", s |-> <<>>]
Null == [t |-> "null", s |-> <<>>]
S(chars) == [t |-> "string", s |-> chars]

\* v ?? ''
OrEmpty(v) == IF v.t \in {"undefined", "null"} THEN S(<<>>) ELSE v

\* v?.toString() ?? ''
Stringify(v) == IF v.t \in {"undefined", "null"} THEN <<>> ELSE v.s

Range(f) == {f[x] : x \in DOMAIN f}

\* Array.prototype.join of already stringified members
RECURSIVE Join(_, _)
Join(parts, sep) ==
  IF Len(parts) = 0 THEN <<>>
  ELSE IF Len(parts) = 1 THEN parts[1]
  ELSE parts[1] \o sep \o Join(Tail(parts), sep)

(***************************************************************************)
(* Result sets: keys (column names), rows (values + annotations per        *)
(* column), meta.compareKeys                                               *)
(***************************************************************************)
ColNames == {"id", "name"}

EmptyMeta == [c \in ColNames |-> <<>>]

\* row.values[name]
ValueOf(row, name) ==
  IF name \in DOMAIN row.values THEN row.values[name] ELSE Undefined

Annotation(type, otherValue, name) ==
  [type |-> type, otherValue |-> otherValue, name |-> name]

\* RowHelper.pushAnnotation(row, key, annotation)
pushAnnotation(row, key, annotation) ==
  [row EXCEPT !.meta[key] = Append(@, annotation)]

\* RdhHelper.clearAllAnotations(rs)
clearAllAnotations(rows) ==
  [i \in 1..Len(rows) |-> [rows[i] EXCEPT !.meta = EmptyMeta]]

\* ResultSetDataBuilder.keynames()
keynames(rdh) == rdh.keys

NoCompareKey == [kind |-> "none", names |-> <<>>, name |-> ""]
PrimaryKey(names) == [kind |-> "primary", names |-> names, name |-> ""]
CustomKey(names) == [kind |-> "custom", names |-> names, name |-> ""]
UniqKey(name) == [kind |-> "uniq", names |-> <<>>, name |-> name]

Sep == <<"|", ":", "|">>

createCompareKeysValue(compareKey, row1) ==
  IF compareKey.kind \in {"primary", "custom"}
  THEN S(Join([i \in 1..Len(compareKey.names) |->
                 OrEmpty(ValueOf(row1, compareKey.names[i])).s], Sep))
  ELSE OrEmpty(ValueOf(row1, compareKey.name))

\* getAvailableCompareKey without the test that the set has the key's columns
getAvailableCompareKeyUnchecked(knames, compareKeys) ==
  IF Len(compareKeys) = 0 THEN NoCompareKey ELSE Head(compareKeys)

RECURSIVE getAvailableCompareKey(_, _)
getAvailableCompareKey(knames, compareKeys) ==
  IF Len(compareKeys) = 0 THEN NoCompareKey
  ELSE LET ckey == Head(compareKeys) IN
       IF ckey.kind \in {"primary", "custom"}
          /\ \A i \in 1..Len(ckey.names) : ckey.names[i] \in Range(knames)
       THEN ckey
       ELSE IF ckey.kind = "uniq" /\ ckey.name \in Range(knames)
       THEN ckey
       ELSE getAvailableCompareKey(knames, Tail(compareKeys))

(***************************************************************************)
(* diff(rdh1, rdh2)                                                        *)
(***************************************************************************)
RECURSIVE pushAnnotationAll(_, _, _)
\* keynames.forEach((name) => RowHelper.pushAnnotation(row, name, annotation))
pushAnnotationAll(row, knames, annotation) ==
  IF Len(knames) = 0 THEN row
  ELSE pushAnnotationAll(pushAnnotation(row, Head(knames), annotation),
                         Tail(knames), annotation)

RECURSIVE compareColumnsUnflagged(_, _, _, _)
\* the comparison of a matched pair that never sets its "updated" flag
compareColumnsUnflagged(knames, row1, row2, updated) ==
  IF Len(knames) = 0
  THEN [row1 |-> row1, row2 |-> row2, updated |-> updated]
  ELSE LET name == Head(knames)
           v1 == Stringify(ValueOf(row1, name))
           v2 == Stringify(ValueOf(row2, name))
       IN IF v1 # v2
          THEN compareColumnsUnflagged(Tail(knames),
                 pushAnnotation(row1, name,
                                Annotation("Upd", ValueOf(row2, name), "")),
                 pushAnnotation(row2, name,
                                Annotation("Upd", ValueOf(row1, name), "")),
                 updated)
          ELSE compareColumnsUnflagged(Tail(knames), row1, row2, updated)

RECURSIVE compareColumns(_, _, _, _)
\* the keynames.forEach of a matched pair: paired Upd annotations
compareColumns(knames, row1, row2, updated) ==
  IF Len(knames) = 0
  THEN [row1 |-> row1, row2 |-> row2, updated |-> updated]
  ELSE LET name == Head(knames)
           v1 == Stringify(ValueOf(row1, name))
           v2 == Stringify(ValueOf(row2, name))
       IN IF v1 # v2
          THEN compareColumns(Tail(knames),
                 pushAnnotation(row1, name,
                                Annotation("Upd", ValueOf(row2, name), "")),
                 pushAnnotation(row2, name,
                                Annotation("Upd", ValueOf(row1, name), "")),
                 TRUE)
          ELSE compareColumns(Tail(knames), row1, row2, updated)

\* the scan of rdh2.rows leaving the loop after its first row
firstMatchHeadOnly(compareKey, key1, rows2) ==
  IF Len(rows2) > 0 /\ createCompareKeysValue(compareKey, rows2[1]) = key1
  THEN 1 ELSE 0

\* the scan of rdh2.rows going on to the last row with the key
lastMatch(compareKey, key1, rows2) ==
  LET M == {j \in 1..Len(rows2) :
              createCompareKeysValue(compareKey, rows2[j]) = key1}
  IN IF M = {} THEN 0 ELSE CHOOSE j \in M : \A k \in M : j >= k

\* index of the row at which "for (const row2 of rdh2.rows)" breaks, 0 if none
firstMatch(compareKey, key1, rows2) ==
  LET M == {j \in 1..Len(rows2) :
              createCompareKeysValue(compareKey, rows2[j]) = key1}
  IN IF M = {} THEN 0 ELSE CHOOSE j \in M : \A k \in M : j <= k

RECURSIVE diffOldRows(_, _, _, _)
\* rdh1.rows.forEach((row1) => ...)
diffOldRows(i, knames, compareKey, st) ==
  IF i > Len(st.rows1) THEN st
  ELSE LET row1 == st.rows1[i]
           key1 == createCompareKeysValue(compareKey, row1)
           j == firstMatch(compareKey, key1, st.rows2)
           seen == st.hasAlreadyChecked \cup {key1}
       IN IF j = 0
          THEN diffOldRows(i + 1, knames, compareKey,
                 [st EXCEPT !.rows1[i] = pushAnnotationAll(row1, knames,
                                           Annotation("Del", Undefined, "")),
                            !.deleted = @ + 1,
                            !.hasAlreadyChecked = seen])
          ELSE LET c == compareColumns(knames, row1, st.rows2[j], FALSE)
               IN diffOldRows(i + 1, knames, compareKey,
                    [st EXCEPT !.rows1[i] = c.row1,
                               !.rows2[j] = c.row2,
                               !.updated = IF c.updated THEN @ + 1 ELSE @,
                               !.hasAlreadyChecked = seen])

RECURSIVE diffNewRows(_, _, _, _)
\* rdh2.rows.forEach((row2) => ...)
diffNewRows(i, knames, compareKey, st) ==
  IF i > Len(st.rows2) THEN st
  ELSE LET row2 == st.rows2[i]
           key2 == createCompareKeysValue(compareKey, row2)
       IN IF key2 \notin st.hasAlreadyChecked
          THEN diffNewRows(i + 1, knames, compareKey,
                 [st EXCEPT !.rows2[i] = pushAnnotationAll(row2, knames,
                                           Annotation("Add", Undefined, "")),
                            !.inserted = @ + 1])
          ELSE diffNewRows(i + 1, knames, compareKey, st)

DiffResult(ok, deleted, inserted, updated, message) ==
  [ok |-> ok, deleted |-> deleted, inserted |-> inserted,
   updated |-> updated, message |-> message]

MsgMissingKey == "Missing compare key (Primary or uniq key)."
MsgMissingAvailableKey == "Missing available compare key (Primary or uniq key)."

\* the message of a completed comparison
diffMessage(inserted, deleted, updated) ==
  IF inserted = 0 /\ deleted = 0 /\ updated = 0
  THEN <<"No changes", 0, 0, 0>>
  ELSE <<"Inserted:,Deleted:,Updated:", inserted, deleted, updated>>

\* the compare key diff would use on the old set
diffCompareKey(r1) == getAvailableCompareKey(keynames(r1), r1.compareKeys)

\* the comparison starting on the rows as they are, annotations included
diffStartUncleared(r1, r2) ==
  [rows1 |-> r1.rows, rows2 |-> r2.rows,
   deleted |-> 0, inserted |-> 0, updated |-> 0, hasAlreadyChecked |-> {}]

\* new Set(); RdhHelper.clearAllAnotations(rdb1.rs); ...(rdb2.rs): what the
\* two row loops start from
diffStart(r1, r2) ==
  [rows1 |-> clearAllAnotations(r1.rows),
   rows2 |-> clearAllAnotations(r2.rows),
   deleted |-> 0, inserted |-> 0, updated |-> 0, hasAlreadyChecked |-> {}]

diff(r1, r2) ==
  IF Len(r1.compareKeys) = 0
  THEN [rdh1 |-> r1, rdh2 |-> r2,
        result |-> DiffResult(FALSE, 0, 0, 0, <<MsgMissingKey, 0, 0, 0>>)]
  ELSE LET knames == keynames(r1)
           compareKey == diffCompareKey(r1)
       IN IF compareKey.kind = "none"
          THEN [rdh1 |-> r1, rdh2 |-> r2,
                result |-> DiffResult(FALSE, 0, 0, 0,
                                      <<MsgMissingAvailableKey, 0, 0, 0>>)]
          ELSE LET st0 == diffStart(r1, r2)
                   st1 == diffOldRows(1, knames, compareKey, st0)
                   st2 == diffNewRows(1, knames, compareKey, st1)
               IN [rdh1 |-> [r1 EXCEPT !.rows = st2.rows1],
                   rdh2 |-> [r2 EXCEPT !.rows = st2.rows2],
                   result |-> DiffResult(TRUE, st2.deleted, st2.inserted,
                                st2.updated,
                                diffMessage(st2.inserted, st2.deleted,
                                            st2.updated))]

(***************************************************************************)
(* runRuleEngine(rdh, tableRule)                                           *)
(***************************************************************************)
Leaf(fact, operator, value) ==
  [kind |-> "leaf", items |-> <<>>, fact |-> fact, operator |-> operator,
   value |-> value]
AllOf(items) ==
  [kind |-> "all", items |-> items, fact |-> "", operator |-> "",
   value |-> Undefined]
AnyOf(items) ==
  [kind |-> "any", items |-> items, fact |-> "", operator |-> "",
   value |-> Undefined]

IsPrefix(p, str) == Len(p) <= Len(str) /\ SubSeq(str, 1, Len(p)) = p
IsSuffix(p, str) ==
  Len(p) <= Len(str) /\ SubSeq(str, Len(str) - Len(p) + 1, Len(str)) = p

\* the engine's built-in equal / notEqual and the operators added to it
evalOperator(operator, factValue, jsonValue) ==
  CASE operator = "equal" -> factValue = jsonValue
    [] operator = "notEqual" -> factValue # jsonValue
    [] operator = "isNull" -> factValue.t = "null"
    [] operator = "isNotNull" -> factValue.t # "null"
    [] operator = "isNil" -> factValue.t \in {"null", "undefined"}
    [] operator = "isNotNil" -> factValue.t \notin {"null", "undefined"}
    [] operator = "startsWith" ->
         LET v == Stringify(factValue)
         IN IF Len(v) = 0 THEN FALSE ELSE IsPrefix(Stringify(jsonValue), v)
    [] operator = "endsWith" ->
         LET v == Stringify(factValue)
         IN IF Len(v) = 0 THEN FALSE ELSE IsSuffix(Stringify(jsonValue), v)
    [] OTHER -> FALSE

\* RowHelper.getRuleEngineValues(row, rdh.keys)
getRuleEngineValues(row, keys) ==
  [k \in Range(keys) |-> ValueOf(row, k)]

FactOf(facts, name) == IF name \in DOMAIN facts THEN facts[name] ELSE Undefined

RECURSIVE evaluate(_, _)
\* the engine's evaluation of a condition tree on one fact map
evaluate(node, facts) ==
  CASE node.kind = "all" ->
         \A i \in 1..Len(node.items) : evaluate(node.items[i], facts)
    [] node.kind = "any" ->
         \E i \in 1..Len(node.items) : evaluate(node.items[i], facts)
    [] OTHER -> evalOperator(node.operator, FactOf(facts, node.fact),
                             node.value)

\* the engine's results (the rules whose conditions held) taken instead
failureResultsPassed(details, facts) ==
  SelectSeq(details, LAMBDA d : evaluate(d.conditions, facts))

\* const { failureResults } = await engine.run(facts): the rules, in order,
\* whose conditions did not hold
failureResults(details, facts) ==
  SelectSeq(details, LAMBDA d : ~evaluate(d.conditions, facts))

RECURSIVE initCounters(_, _)
\* tableRule.details.forEach: limitCounters[detail.ruleName] = {limit, count: 0}
initCounters(details, counters) ==
  IF Len(details) = 0 THEN counters
  ELSE LET d == Head(details)
           c == [limit |-> d.error.limit, count |-> 0]
       IN initCounters(Tail(details),
            [n \in DOMAIN counters \cup {d.ruleName} |->
               IF n = d.ruleName THEN c ELSE counters[n]])

RECURSIVE annotateFailuresUnlimited(_, _, _)
\* the loop over the failure results without the test of the rule's limit
annotateFailuresUnlimited(failures, row, counters) ==
  IF Len(failures) = 0 THEN [row |-> row, counters |-> counters]
  ELSE LET d == Head(failures)
           name == d.ruleName
       IN annotateFailuresUnlimited(Tail(failures),
            pushAnnotation(row, d.error.column,
                           Annotation("Rul", Undefined, name)),
            [counters EXCEPT ![name].count = @ + 1])

RECURSIVE annotateFailures(_, _, _)
\* for (const result of failureResults) { ... }
annotateFailures(failures, row, counters) ==
  IF Len(failures) = 0 THEN [row |-> row, counters |-> counters]
  ELSE LET d == Head(failures)
           name == d.ruleName
       IN IF counters[name].count < counters[name].limit
          THEN annotateFailures(Tail(failures),
                 pushAnnotation(row, d.error.column,
                                Annotation("Rul", Undefined, name)),
                 [counters EXCEPT ![name].count = @ + 1])
          ELSE annotateFailures(Tail(failures), row, counters)

\* the test that leaves the row loop, with "some" in place of "every"
someLimitReached(counters) ==
  \E n \in DOMAIN counters : counters[n].count >= counters[n].limit

\* Object.values(limitCounters).every((v) => v.count >= v.limit)
allLimitsReached(counters) ==
  \A n \in DOMAIN counters : counters[n].count >= counters[n].limit

RECURSIVE ruleRows(_, _, _, _)
\* for (const row of rdh.rows) { ... }
ruleRows(i, keys, details, st) ==
  IF i > Len(st.rows) THEN st
  ELSE LET facts == getRuleEngineValues(st.rows[i], keys)
           failures == failureResults(details, facts)
           a == annotateFailures(failures, st.rows[i], st.counters)
           st1 == [rows |-> [st.rows EXCEPT ![i] = a.row],
                   counters |-> a.counters,
                   ok |-> st.ok /\ Len(failures) = 0,
                   evaluated |-> i]
       IN IF allLimitsReached(st1.counters) THEN st1
          ELSE ruleRows(i + 1, keys, details, st1)

runRuleEngine(rdh, rule) ==
  LET st == ruleRows(1, rdh.keys, rule.details,
                     [rows |-> rdh.rows,
                      counters |-> initCounters(rule.details, <<>>),
                      ok |-> TRUE, evaluated |-> 0])
  IN [rdh |-> [rdh EXCEPT !.rows = st.rows], ok |-> st.ok,
      counters |-> st.counters, evaluated |-> st.evaluated]

(***************************************************************************)
(* Bind-parameter normalization (part_001)                                 *)
(***************************************************************************)
\* \s and \w over the characters that queries are written with here
IsSpace(c) == c \in {" ", "\n"}
IsWord(c) ==
  c \in {"a", "b", "d", "e", "i", "l", "m", "n", "t", "v", "_",
         "0", "1", "2", "3", "4", "5", "6", "7", "8", "9",
         "A", "B", "D", "E", "F", "H", "I", "L", "M", "N", "O", "R", "S", "T",
         "U", "W"}
\* [a-zA-Z_$]
IsIdentStart(c) ==
  \/ c = "$"
  \/ IsWord(c) /\ c \notin {"0", "1", "2", "3", "4", "5", "6", "7", "8", "9"}

\* least element of a non-empty set of numbers
Least(P) == CHOOSE x \in P : \A y \in P : x <= y

\* decimal digits of a natural number
RECURSIVE Decimal(_)
Decimal(n) ==
  LET d == <<"0", "1", "2", "3", "4", "5", "6", "7", "8", "9">>
  IN IF n < 10 THEN <<d[n + 1]>> ELSE Decimal(n \div 10) \o <<d[(n % 10) + 1]>>

\* the place behind the match of \/\*[^*]*\*\/ that starts at p, 0 if none
blockCommentEnd(str, p) ==
  IF p + 1 <= Len(str) /\ str[p] = "/" /\ str[p + 1] = "*"
  THEN LET Stars == {q \in (p + 2)..Len(str) : str[q] = "*"}
       IN IF Stars # {} /\ Least(Stars) + 1 <= Len(str)
             /\ str[Least(Stars) + 1] = "/"
          THEN Least(Stars) + 2
          ELSE 0
  ELSE 0

RECURSIVE stripBlockComments(_, _, _)
\* query.replace(/\/\*[^*]*\*\//gm, '')
stripBlockComments(str, p, acc) ==
  LET Starts == {q \in p..Len(str) : blockCommentEnd(str, q) # 0}
  IN IF Starts = {} THEN acc \o SubSeq(str, p, Len(str))
     ELSE stripBlockComments(str, blockCommentEnd(str, Least(Starts)),
                             acc \o SubSeq(str, p, Least(Starts) - 1))

\* the places of str at which (#|--)\s+.*$ matches: the marker, one or more
\* white-space characters, then no line break up to the end of the text
lineCommentStarts(str) ==
  {p \in 1..Len(str) :
     LET a == IF str[p] = "#" THEN p + 1
              ELSE IF str[p] = "-" /\ p + 1 <= Len(str) /\ str[p + 1] = "-"
              THEN p + 2 ELSE 0
         NonSpace == {w \in a..Len(str) : ~IsSpace(str[w])}
         w == IF NonSpace = {} THEN Len(str) + 1 ELSE Least(NonSpace)
     IN /\ a # 0
        /\ w > a
        /\ \A k \in w..Len(str) : str[k] # "\n"}

\* .replace(/(\s)?(#|--)\s+.*$/g, '$1')
stripLineComment(str) ==
  IF lineCommentStarts(str) = {} THEN str
  ELSE SubSeq(str, 1, Least(lineCommentStarts(str)) - 1)

stripComment(query) == stripLineComment(stripBlockComments(query, 1, <<>>))

RECURSIVE tolines(_)
\* tolines(s): the lines of a text
tolines(str) ==
  LET Breaks == {k \in 1..Len(str) : str[k] = "\n"}
  IN IF Breaks = {} THEN <<str>>
     ELSE <<SubSeq(str, 1, Least(Breaks) - 1)>>
            \o tolines(SubSeq(str, Least(Breaks) + 1, Len(str)))

\* last character of the longest :name starting at p
wordEnd(line, p) ==
  LET Stop == {k \in (p + 2)..Len(line) : ~IsWord(line[k])}
  IN IF Stop = {} THEN Len(line) ELSE Least(Stop) - 1

\* /((?<!:):([a-zA-Z_$]\w*)\b)/ matches at p
paramAt(line, p) ==
  /\ line[p] = ":"
  /\ p = 1 \/ line[p - 1] # ":"
  /\ p + 1 <= Len(line)
  /\ IsIdentStart(line[p + 1])
  /\ LET e == wordEnd(line, p)
     IN IsWord(line[e]) # (e + 1 <= Len(line) /\ IsWord(line[e + 1]))

\* values of a bind map; an array holds scalars
Absent == [kind |-> "undefined", v |-> 0, s |-> <<>>, elems |-> <<>>]
Unset == [kind |-> "unset", v |-> 0, s |-> <<>>, elems |-> <<>>]
Scalar(n) == [kind |-> "scalar", v |-> n, s |-> <<>>, elems |-> <<>>]
Arr(elems) == [kind |-> "array", v |-> 0, s |-> <<>>, elems |-> elems]
\* null and strings, as the clause compiler binds them
NullValue == [kind |-> "null", v |-> 0, s |-> <<>>, elems |-> <<>>]
Str(chars) == [kind |-> "string", v |-> 0, s |-> chars, elems |-> <<>>]

NoBindParams == [given |-> FALSE, vals |-> <<>>]
BindParams(vals) == [given |-> TRUE, vals |-> vals]

\* bindParams[word]
bindOf(bp, word) ==
  IF word \in DOMAIN bp.vals THEN bp.vals[word] ELSE Absent

\* checkBindParam(s), with missingParams kept in insertion order
isMissing(bp, word) == bp.given /\ bindOf(bp, word).kind = "undefined"

addMissing(missing, word) ==
  IF \E k \in 1..Len(missing) : missing[k] = word THEN missing
  ELSE Append(missing, word)

PosRecord(firstPosition, kind, numOfBinds) ==
  [firstPosition |-> firstPosition, kind |-> kind, numOfBinds |-> numOfBinds]

\* nameWithPos[word] = rec, remembering the order of the keys
setPos(st, word, rec) ==
  [st EXCEPT !.nameWithPos = [w \in DOMAIN @ \cup {word} |->
                                IF w = word THEN rec ELSE @[w]],
             !.keys = Append(@, word)]

\* getOrCreateSinglePosition taking a new position at every occurrence
createSinglePosition(st, word) ==
  LET st1 == setPos([st EXCEPT !.i = @ + 1], word,
                    PosRecord(st.i + 1, "single", 1))
  IN [st1 EXCEPT !.text = @ \o <<"$">> \o Decimal(st.i + 1)]

getOrCreateSinglePosition(st, word) ==
  LET st1 == IF word \in DOMAIN st.nameWithPos THEN st
             ELSE setPos([st EXCEPT !.i = @ + 1], word,
                         PosRecord(st.i + 1, "single", 1))
  IN [st1 EXCEPT !.text = @ \o <<"$">>
                            \o Decimal(st1.nameWithPos[word].firstPosition)]

NullLiteral == <<" ", "n", "u", "l", "l", " ">>

\* getOrCreateMultiplePosition reserving a new block at every occurrence
createMultiplePosition(st, word, bp) ==
  LET numOfBinds == IF bp.given THEN Len(bindOf(bp, word).elems) ELSE 0
      i1 == IF numOfBinds # 0 THEN st.i + 1 ELSE st.i
      i2 == IF numOfBinds > 1 THEN i1 + numOfBinds - 1 ELSE i1
      st1 == setPos([st EXCEPT !.i = i2], word,
                    PosRecord(i1, "multiple", numOfBinds))
      list == [j \in 1..numOfBinds |-> <<"$">> \o Decimal(i1 + j - 1)]
  IN IF numOfBinds = 0
     THEN [st1 EXCEPT !.text = @ \o NullLiteral]
     ELSE [st1 EXCEPT !.text = @ \o Join(list, <<",">>)]

getOrCreateMultiplePosition(st, word, bp) ==
  LET numOfBinds == IF bp.given THEN Len(bindOf(bp, word).elems) ELSE 0
      i1 == IF numOfBinds # 0 THEN st.i + 1 ELSE st.i
      i2 == IF numOfBinds > 1 THEN i1 + numOfBinds - 1 ELSE i1
      st1 == IF word \in DOMAIN st.nameWithPos THEN st
             ELSE setPos([st EXCEPT !.i = i2], word,
                         PosRecord(i1, "multiple", numOfBinds))
      pos == st1.nameWithPos[word]
      list == [j \in 1..pos.numOfBinds |->
                 <<"$">> \o Decimal(pos.firstPosition + j - 1)]
  IN IF pos.numOfBinds = 0
     THEN [st1 EXCEPT !.text = @ \o NullLiteral]
     ELSE [st1 EXCEPT !.text = @ \o Join(list, <<",">>)]

\* the replace callback of normalizePositionedParametersQuery for one :word
positionedReplace(st, word, bp) ==
  LET ok == ~isMissing(bp, word)
      st1 == IF ok THEN st ELSE [st EXCEPT !.missing = addMissing(@, word)]
  IN IF ok /\ ~bp.given
     THEN [st1 EXCEPT !.typeError = TRUE]
     ELSE IF ok /\ bindOf(bp, word).kind = "array"
     THEN getOrCreateMultiplePosition(st1, word, bp)
     ELSE getOrCreateSinglePosition(st1, word)

\* the simple-mode callback binding a scalar at its first occurrence only
simpleReplaceOnce(st, word, bp) ==
  LET v == bindOf(bp, word)
  IN IF ~bp.given THEN [st EXCEPT !.typeError = TRUE]
     ELSE IF v.kind = "array"
     THEN [st EXCEPT !.binds = @ \o v.elems,
                     !.text = @ \o Join([j \in 1..Len(v.elems) |-> <<"?">>],
                                        <<",">>)]
     ELSE [st EXCEPT !.binds = IF v \in Range(@) THEN @ ELSE Append(@, v),
                     !.missing = IF isMissing(bp, word)
                                 THEN addMissing(@, word) ELSE @,
                     !.text = @ \o <<"?">>]

\* the replace callback of normalizeSimpleParametersQuery for one :word
simpleReplace(st, word, bp) ==
  LET ok == ~isMissing(bp, word)
      st1 == IF ok THEN st ELSE [st EXCEPT !.missing = addMissing(@, word)]
  IN IF ok /\ ~bp.given
     THEN [st1 EXCEPT !.typeError = TRUE]
     ELSE IF ok /\ bindOf(bp, word).kind = "array"
     THEN LET elems == bindOf(bp, word).elems
              bindStr == Join([j \in 1..Len(elems) |-> <<"?">>], <<",">>)
          IN [st1 EXCEPT !.binds = @ \o elems, !.text = @ \o bindStr]
     ELSE [st1 EXCEPT !.binds = IF bp.given THEN Append(@, bindOf(bp, word))
                                ELSE @,
                      !.text = @ \o <<"?">>]

replaceParam(positioned, st, word, bp) ==
  IF positioned THEN positionedReplace(st, word, bp)
  ELSE simpleReplace(st, word, bp)

RECURSIVE replaceLine(_, _, _, _, _)
\* line.replace(reg, callback), the text so far in st.text
replaceLine(positioned, line, p, st, bp) ==
  LET Matches == {q \in p..Len(line) : paramAt(line, q)}
  IN IF st.typeError THEN st
     ELSE IF Matches = {}
     THEN [st EXCEPT !.text = @ \o SubSeq(line, p, Len(line))]
     ELSE LET q == Least(Matches)
              e == wordEnd(line, q)
          IN replaceLine(positioned, line, e + 1,
               replaceParam(positioned,
                            [st EXCEPT !.text = @ \o SubSeq(line, p, q - 1)],
                            SubSeq(line, q + 1, e), bp),
               bp)

RECURSIVE replaceLines(_, _, _, _, _)
\* lines.forEach(...) and newLines.join('\n')
replaceLines(positioned, lines, k, st, bp) ==
  IF k > Len(lines) \/ st.typeError THEN st
  ELSE replaceLines(positioned, lines, k + 1,
         replaceLine(positioned, lines[k], 1,
                     IF k = 1 THEN st ELSE [st EXCEPT !.text = Append(@, "\n")],
                     bp),
         bp)

ScanStart ==
  [i |-> 0, nameWithPos |-> <<>>, keys |-> <<>>, missing |-> <<>>,
   text |-> <<>>, binds |-> <<>>, typeError |-> FALSE]

\* what a call gives back: a result, or the error it threw
Returned(query, binds) ==
  [kind |-> "ok", query |-> query, binds |-> binds, missing |-> <<>>]
MissingBindError(missing) ==
  [kind |-> "MissingBind", query |-> <<>>, binds |-> <<>>, missing |-> missing]
TypeError ==
  [kind |-> "TypeError", query |-> <<>>, binds |-> <<>>, missing |-> <<>>]

\* positionedBinds writing every value one slot too far
positionedBindsShifted(st, bp) ==
  [idx \in 1..st.i |->
     LET Writers == {k \in 1..Len(st.keys) :
                       LET pos == st.nameWithPos[st.keys[k]]
                       IN /\ pos.firstPosition + 1 <= idx
                          /\ idx < pos.firstPosition + 1 + pos.numOfBinds}
     IN IF Writers = {} THEN Unset
        ELSE LET k == CHOOSE x \in Writers : \A y \in Writers : y <= x
                 pos == st.nameWithPos[st.keys[k]]
                 v == bindOf(bp, st.keys[k])
             IN IF pos.kind = "single" THEN v
                ELSE v.elems[idx - pos.firstPosition]]

\* keys.forEach((k) => ...): the slots of the names, later keys written last
positionedBinds(st, bp) ==
  [idx \in 1..st.i |->
     LET Writers == {k \in 1..Len(st.keys) :
                       LET pos == st.nameWithPos[st.keys[k]]
                       IN /\ pos.firstPosition <= idx
                          /\ idx < pos.firstPosition + pos.numOfBinds}
     IN IF Writers = {} THEN Unset
        ELSE LET k == CHOOSE x \in Writers : \A y \in Writers : y <= x
                 pos == st.nameWithPos[st.keys[k]]
                 v == bindOf(bp, st.keys[k])
             IN IF pos.kind = "single" THEN v
                ELSE v.elems[idx - pos.firstPosition + 1]]

normalizePositionedParametersQuery(query, bp) ==
  LET st == replaceLines(TRUE, tolines(stripComment(query)), 1, ScanStart, bp)
  IN IF st.typeError THEN TypeError
     ELSE IF bp.given /\ Len(st.missing) > 0 THEN MissingBindError(st.missing)
     ELSE Returned(st.text,
                   IF bp.given THEN positionedBinds(st, bp)
                   ELSE [idx \in 1..st.i |-> Unset])

normalizeSimpleParametersQuery(query, bp) ==
  LET st == replaceLines(FALSE, tolines(stripComment(query)), 1, ScanStart, bp)
  IN IF st.typeError THEN TypeError
     ELSE Returned(st.text, st.binds)

(***************************************************************************)
(* Conditional clause compiler and toViewDataQuery (part_001)              *)
(***************************************************************************)
Digits == {"0", "1", "2", "3", "4", "5", "6", "7", "8", "9"}

DigitValue(c) ==
  CASE c = "0" -> 0 [] c = "1" -> 1 [] c = "2" -> 2 [] c = "3" -> 3
    [] c = "4" -> 4 [] c = "5" -> 5 [] c = "6" -> 6 [] c = "7" -> 7
    [] c = "8" -> 8 [] OTHER -> 9

RECURSIVE NumberOf(_)
\* the number a run of decimal digits writes
NumberOf(chars) ==
  IF Len(chars) = 0 THEN 0
  ELSE 10 * NumberOf(SubSeq(chars, 1, Len(chars) - 1))
         + DigitValue(chars[Len(chars)])

IsNumberText(chars) ==
  Len(chars) > 0 /\ \A k \in 1..Len(chars) : chars[k] \in Digits

\* toNum(value): the number, undefined when the value is not one
toNum(value) ==
  IF value.kind = "scalar" THEN value
  ELSE IF value.kind = "string" /\ IsNumberText(value.s)
  THEN Scalar(NumberOf(value.s))
  ELSE Absent

\* v ?? null
OrNull(v) == IF v.kind \in {"undefined", "null"} THEN NullValue ELSE v

\* it + ''
ToText(v) ==
  CASE v.kind = "string" -> v
    [] v.kind = "scalar" -> Str(Decimal(v.v))
    [] v.kind = "null" -> Str(<<"n", "u", "l", "l">>)
    [] OTHER -> Str(<<"u", "n", "d", "e", "f", "i", "n", "e", "d">>)

RECURSIVE SplitAt(_, _)
\* String.prototype.split on one separator character
SplitAt(chars, sep) ==
  LET At == {k \in 1..Len(chars) : chars[k] = sep}
  IN IF At = {} THEN <<chars>>
     ELSE <<SubSeq(chars, 1, Least(At) - 1)>>
            \o SplitAt(SubSeq(chars, Least(At) + 1, Len(chars)), sep)

\* String.prototype.trim
Trim(chars) ==
  LET Keep == {k \in 1..Len(chars) : ~IsSpace(chars[k])}
  IN IF Keep = {} THEN <<>>
     ELSE SubSeq(chars, Least(Keep),
                 CHOOSE k \in Keep : \A m \in Keep : m <= k)

\* JSON.parse of a text in square brackets: a list of numbers, or a
\* SyntaxError (a value of kind "SyntaxError" stands for the throw)
SyntaxErrorValue ==
  [kind |-> "SyntaxError", v |-> 0, s |-> <<>>, elems |-> <<>>]

JSONParse(chars) ==
  LET inner == SubSeq(chars, 2, Len(chars) - 1)
      parts == SplitAt(inner, ",")
  IN IF Len(chars) < 2 THEN SyntaxErrorValue
     ELSE IF Len(inner) = 0 THEN Arr(<<>>)
     ELSE IF \A k \in 1..Len(parts) : IsNumberText(parts[k])
     THEN Arr([k \in 1..Len(parts) |-> Scalar(NumberOf(parts[k]))])
     ELSE SyntaxErrorValue

\* value.startsWith is not a function
TypeErrorValue ==
  [kind |-> "TypeError", v |-> 0, s |-> <<>>, elems |-> <<>>]

EOL == <<"\n">>

\* the characters of a column name
NameChars(name) ==
  IF name = "id" THEN <<"i", "d">> ELSE <<"n", "a", "m", "e">>

\* the backquote character, written as an apostrophe
BackQuote == <<"'">>

wrapQuote(chars, withQuote) ==
  IF withQuote THEN BackQuote \o chars \o BackQuote ELSE chars

\* operatorToSQLString(operator)
operatorToSQLString(operator) ==
  CASE operator = "equal" -> <<"=">>
    [] operator = "notEqual" -> <<"<", ">">>
    [] operator = "isNull" -> <<"I", "S", " ", "N", "U", "L", "L">>
    [] operator = "isNotNull" -> <<"I", "S", " ", "N", "O", "T", " ", "N", "U", "L", "L">>
    [] operator = "between" -> <<"B", "E", "T", "W", "E", "E", "N">>
    [] operator = "in" -> <<"I", "N">>
    [] operator = "notIn" -> <<"N", "O", "T", " ", "I", "N">>
    [] OTHER -> <<"=">>

\* tableRes.children: the columns of the table and their types
TableColumns == <<[name |-> "id", colType |-> "numeric"]>>

\* columns.find((it) => it.name === fact)?.colType ?? GeneralColumnType.TEXT
columnType(columns, fact) ==
  LET Found == {k \in 1..Len(columns) : columns[k].name = fact}
  IN IF Found = {} THEN "text" ELSE columns[Least(Found)].colType

\* one element of a between / in list, by column type
coerceElement(colType, it) ==
  IF colType = "numeric" THEN OrNull(toNum(it)) ELSE ToText(it)

\* the value of a between / in / notIn leaf: null, an array, or a throw
listValue(colType, value) ==
  IF value.kind \in {"undefined", "null"} THEN NullValue
  ELSE LET arr ==
             IF value.kind = "array" THEN value
             ELSE IF value.kind # "string" THEN TypeErrorValue
             ELSE IF Len(value.s) > 0 /\ Head(value.s) = "["
                     /\ value.s[Len(value.s)] = "]"
             THEN JSONParse(value.s)
             ELSE LET parts == SplitAt(value.s, ",")
                  IN Arr([k \in 1..Len(parts) |-> Str(Trim(parts[k]))])
       IN IF arr.kind # "array" THEN arr
          ELSE Arr([k \in 1..Len(arr.elems) |->
                      coerceElement(colType, arr.elems[k])])

\* the value of any other leaf
singleValue(colType, value) ==
  IF colType = "numeric" THEN OrNull(toNum(value)) ELSE value

\* val[k]
ElementAt(val, k) == IF k <= Len(val.elems) THEN val.elems[k] ELSE Absent

\* `val${params.pos}`
BindName(pos) == <<"v", "a", "l">> \o Decimal(pos)

\* params.bindParams[name] = val
setBind(binds, name, val) ==
  [w \in DOMAIN binds \cup {name} |-> IF w = name THEN val ELSE binds[w]]

\* the "condition" branch of createConditionalClause: the text of one leaf,
\* its bind entries and the position counter after it
leafClause(nest, params, columns, quote) ==
  LET colType == columnType(columns, nest.fact)
      q == wrapQuote(NameChars(nest.fact), quote) \o <<" ">>
             \o operatorToSQLString(nest.operator) \o <<" ">>
      n1 == BindName(params.pos)
      n2 == BindName(params.pos + 1)
  IN IF nest.operator \in {"isNull", "isNotNull"}
     THEN [q |-> q, params |-> params]
     ELSE IF nest.operator \in {"between", "in", "notIn"}
     THEN LET val == listValue(colType, nest.value)
          IN IF val.kind \in {"SyntaxError", "TypeError"}
             THEN [q |-> q, params |-> [params EXCEPT !.error = val.kind]]
             ELSE IF nest.operator = "between"
             THEN [q |-> q \o <<":">> \o n1 \o <<" ", "A", "N", "D", " ", ":">> \o n2,
                   params |->
                     [params EXCEPT
                        !.pos = @ + 2,
                        !.bindParams =
                          IF val.kind = "null"
                          THEN setBind(setBind(@, n1, NullValue), n2, NullValue)
                          ELSE setBind(setBind(@, n1, ElementAt(val, 1)),
                                       n2, ElementAt(val, 2))]]
             ELSE [q |-> q \o <<"(", ":">> \o n1 \o <<")">>,
                   params |-> [params EXCEPT !.pos = @ + 1,
                                             !.bindParams = setBind(@, n1, val)]]
     ELSE [q |-> q \o <<":">> \o n1,
           params |->
             [params EXCEPT
                !.pos = @ + 1,
                !.bindParams = setBind(@, n1, singleValue(colType, nest.value))]]

\* a thrown error that is not a missing bind parameter
Thrown(kind) ==
  [kind |-> kind, query |-> <<>>, binds |-> <<>>, missing |-> <<>>]

\* normalizeQuery({query, toPositionedParameter, bindParams})
normalizeQuery(query, toPositionedParameter, bp) ==
  IF toPositionedParameter THEN normalizePositionedParametersQuery(query, bp)
  ELSE normalizeSimpleParametersQuery(query, bp)

\* trees of conditions handed to the compiler; "none" is no tree at all
AllConditions(items) ==
  [kind |-> "all", items |-> items, fact |-> "", operator |-> "",
   value |-> Absent]
AnyConditions(items) ==
  [kind |-> "any", items |-> items, fact |-> "", operator |-> "",
   value |-> Absent]
NoConditions ==
  [kind |-> "none", items |-> <<>>, fact |-> "", operator |-> "",
   value |-> Absent]

isTopLevelCondition(item) == item.kind \in {"all", "any"}

Indent == <<" ", " ">>

RECURSIVE createConditionalClause(_, _, _, _, _)
RECURSIVE clauseItems(_, _, _, _, _, _, _)
\* clauseItems with the position counter of a nested group thrown away
clauseItemsForgettingNested(nestedList, k, queries, params, columns, indent, quote) ==
  IF k > Len(nestedList) \/ params.error # "none"
  THEN [queries |-> queries, params |-> params]
  ELSE LET nest == nestedList[k]
       IN IF isTopLevelCondition(nest)
          THEN LET r == createConditionalClause(nest, columns, params,
                                                indent \o Indent, quote)
               IN clauseItems(nestedList, k + 1,
                    Append(queries,
                           <<"(">> \o EOL \o r.q \o EOL \o indent \o <<")">>),
                    [r.params EXCEPT !.pos = params.pos], columns, indent,
                    quote)
          ELSE LET r == leafClause(nest, params, columns, quote)
               IN clauseItems(nestedList, k + 1, Append(queries, r.q),
                              r.params, columns, indent, quote)

\* for (const nest of nestedList) { ... }, left at the first throw
clauseItems(nestedList, k, queries, params, columns, indent, quote) ==
  IF k > Len(nestedList) \/ params.error # "none"
  THEN [queries |-> queries, params |-> params]
  ELSE LET nest == nestedList[k]
       IN IF isTopLevelCondition(nest)
          THEN LET r == createConditionalClause(nest, columns, params,
                                                indent \o Indent, quote)
               IN clauseItems(nestedList, k + 1,
                    Append(queries,
                           <<"(">> \o EOL \o r.q \o EOL \o indent \o <<")">>),
                    r.params, columns, indent, quote)
          ELSE LET r == leafClause(nest, params, columns, quote)
               IN clauseItems(nestedList, k + 1, Append(queries, r.q),
                              r.params, columns, indent, quote)

createConditionalClause(tree, columns, params, indent, quote) ==
  LET andOr == IF tree.kind = "all" THEN <<"A", "N", "D">> ELSE <<"O", "R">>
      r == clauseItems(tree.items, 1, <<>>, params, columns, indent, quote)
  IN [q |-> IF Len(r.queries) > 0
            THEN indent \o Join(r.queries,
                                EOL \o indent \o andOr \o <<" ">>)
            ELSE <<>>,
      params |-> r.params]

createTableNameWithSchema(schema, table, quote) ==
  IF Len(schema) > 0
  THEN wrapQuote(schema, quote) \o <<".">> \o wrapQuote(table, quote)
  ELSE wrapQuote(table, quote)

\* the table the view-data query reads: no schema name, table t
ViewSchema == <<>>
ViewTable == [name |-> <<"t">>, children |-> TableColumns]
ViewQuote == FALSE

\* toViewDataQuery: the text and the bind map handed to normalizeQuery, and
\* what normalizeQuery returns (or the error thrown before it is reached).
\* The compiled clause c and the built query b are each computed once.
toViewDataQuery(tableRes, schemaName, tree, quote, toPositionedParameter) ==
  LET name == createTableNameWithSchema(schemaName, tableRes.name, quote)
      params == [pos |-> 1, bindParams |-> <<>>, error |-> "none"]
      head == <<"S", "E", "L", "E", "C", "T", " ", "*", " ">> \o EOL
                \o <<"F", "R", "O", "M", " ">> \o name \o <<" ">>
      built ==
        {[query |-> Trim(IF Len(c.q) > 0
                         THEN head \o EOL \o <<"W", "H", "E", "R", "E">>
                                \o EOL \o c.q
                         ELSE head),
          bindParams |-> BindParams(c.params.bindParams),
          error |-> c.params.error] :
           c \in {IF tree.kind = "none" THEN [q |-> <<>>, params |-> params]
                  ELSE createConditionalClause(tree, tableRes.children,
                                               params, Indent, quote)}}
  IN CHOOSE r \in
       {IF b.error # "none"
        THEN [query |-> <<>>, bindParams |-> b.bindParams,
              result |-> Thrown(b.error)]
        ELSE [query |-> b.query, bindParams |-> b.bindParams,
              result |-> normalizeQuery(b.query, toPositionedParameter,
                                        b.bindParams)] :
          b \in built} : TRUE

(***************************************************************************)
(* toBindValue and the insert / update / delete statement builders         *)
(***************************************************************************)
\* the column type predicates of ../resource
isTextLike(colType) == colType = "text"
isNumericLike(colType) == colType = "numeric"
isBooleanLike(colType) == colType = "boolean"
isDateTimeOrDate(colType) == colType \in {"date", "datetime"}
isTime(colType) == colType = "time"
isDateTimeOrDateOrTime(colType) == isDateTimeOrDate(colType) \/ isTime(colType)

\* values of the other semantic types
Bool(b) ==
  [kind |-> "boolean", v |-> IF b THEN 1 ELSE 0, s |-> <<>>, elems |-> <<>>]
DateOf(chars) == [kind |-> "date", v |-> 0, s |-> chars, elems |-> <<>>]
TimeOf(chars) == [kind |-> "time", v |-> 0, s |-> chars, elems |-> <<>>]

\* texts that write a date (digit - digit) and a time (digit : digit)
IsDateText(chars) ==
  Len(chars) = 3 /\ chars[1] \in Digits /\ chars[2] = "-" /\ chars[3] \in Digits
IsTimeText(chars) ==
  Len(chars) = 3 /\ chars[1] \in Digits /\ chars[2] = ":" /\ chars[3] \in Digits

\* toBoolean, toDate, toTime of ../util: the value, undefined when the raw
\* value does not write one
toBoolean(value) ==
  IF value.kind = "boolean" THEN value
  ELSE IF value.kind = "string" /\ value.s \in {<<"t">>, <<"f">>}
  THEN Bool(value.s = <<"t">>)
  ELSE Absent
toDate(value) ==
  IF value.kind = "date" THEN value
  ELSE IF value.kind = "string" /\ IsDateText(value.s) THEN DateOf(value.s)
  ELSE Absent
toTime(value) ==
  IF value.kind = "time" THEN value
  ELSE IF value.kind = "string" /\ IsTimeText(value.s) THEN TimeOf(value.s)
  ELSE Absent

\* value.length === 0
HasLengthZero(value) ==
  \/ value.kind = "string" /\ Len(value.s) = 0
  \/ value.kind = "array" /\ Len(value.elems) = 0

\* toBindValue with the undefined of a failed conversion handed on
toBindValueKeepingUndefined(colType, value) ==
  IF isTextLike(colType) THEN value
  ELSE IF value.kind \in {"undefined", "null"} \/ HasLengthZero(value)
  THEN NullValue
  ELSE IF isNumericLike(colType) THEN toNum(value)
  ELSE IF isDateTimeOrDate(colType) THEN toDate(value)
  ELSE IF isTime(colType) THEN toTime(value)
  ELSE IF isBooleanLike(colType) THEN toBoolean(value)
  ELSE value

toBindValue(colType, value) ==
  IF isTextLike(colType) THEN value
  ELSE IF value.kind \in {"undefined", "null"} \/ HasLengthZero(value)
  THEN NullValue
  ELSE IF isNumericLike(colType) \/ isDateTimeOrDateOrTime(colType)
          \/ isBooleanLike(colType)
  THEN LET v == IF isNumericLike(colType) THEN toNum(value)
                ELSE IF isDateTimeOrDate(colType) THEN toDate(value)
                ELSE IF isTime(colType) THEN toTime(value)
                ELSE toBoolean(value)
       IN IF v.kind = "undefined" THEN NullValue ELSE v
  ELSE value

\* keys.find((it) => it.name === key)?.type ?? GeneralColumnType.UNKNOWN
keyType(keys, key) ==
  LET Found == {k \in 1..Len(keys) : keys[k].name = key}
  IN IF Found = {} THEN "unknown" ELSE keys[Least(Found)].type

\* toPositionedParameter === true ? `$${index + 1}` : '?'
placeHolder(toPositionedParameter, index) ==
  IF toPositionedParameter THEN <<"$">> \o Decimal(index + 1) ELSE <<"?">>

\* a returned statement
Statement(query, binds) ==
  [kind |-> "ok", query |-> query, binds |-> binds, missing |-> <<>>]

RECURSIVE insertEntries(_, _, _, _, _, _)
\* Object.keys(values).forEach of toInsertStatementWithBinds, from the k-th
\* entry on; st holds columnNames, binds, placeHolders and index
insertEntries(entries, k, st, keys, toPositionedParameter, quote) ==
  IF k > Len(entries) THEN st
  ELSE LET key == entries[k].key
           value == toBindValue(keyType(keys, key), entries[k].value)
       IN IF value.kind = "null"
          THEN insertEntries(entries, k + 1, st, keys, toPositionedParameter,
                             quote)
          ELSE insertEntries(entries, k + 1,
                 [columnNames |->
                    Append(st.columnNames, wrapQuote(NameChars(key), quote)),
                  binds |-> Append(st.binds, value),
                  placeHolders |->
                    Append(st.placeHolders,
                           placeHolder(toPositionedParameter, st.index)),
                  index |-> st.index + 1],
                 keys, toPositionedParameter, quote)

toInsertStatementWithBinds(schemaName, tableName, keys, entries, toPositionedParameter, quote) ==
  LET tableNameWithSchema ==
        createTableNameWithSchema(schemaName, tableName, quote)
      st == insertEntries(entries, 1,
                          [columnNames |-> <<>>, binds |-> <<>>,
                           placeHolders |-> <<>>, index |-> 0],
                          keys, toPositionedParameter, quote)
  IN Statement(<<"I", "N", "S", "E", "R", "T", " ", "I", "N", "T", "O", " ">>
                 \o tableNameWithSchema \o <<" ", "(">>
                 \o Join(st.columnNames, <<",">>)
                 \o <<")", " ", "V", "A", "L", "U", "E", "S", " ", "(">>
                 \o Join(st.placeHolders, <<",">>) \o <<")">>,
               st.binds)

RECURSIVE assignEntries(_, _, _, _, _, _, _)
\* assignEntries with the numbering of the WHERE list started again
assignEntriesFromOne(entries, k, st, keys, toPositionedParameter, quote, eq) ==
  IF k > Len(entries) THEN st
  ELSE LET key == entries[k].key
       IN assignEntries(entries, k + 1,
            [list |->
               Append(st.list,
                      wrapQuote(NameChars(key), quote) \o eq
                        \o placeHolder(toPositionedParameter, Len(st.list))),
             binds |->
               Append(st.binds,
                      toBindValue(keyType(keys, key), entries[k].value)),
             index |-> st.index + 1],
            keys, toPositionedParameter, quote, eq)

\* the two Object.keys(...).forEach of toUpdateStatementWithBinds and the one
\* of toDeleteStatementWithBinds, from the k-th entry on; st holds the list
\* of `key = placeholder` texts, binds and index; eq is the text between them
assignEntries(entries, k, st, keys, toPositionedParameter, quote, eq) ==
  IF k > Len(entries) THEN st
  ELSE LET key == entries[k].key
       IN assignEntries(entries, k + 1,
            [list |->
               Append(st.list,
                      wrapQuote(NameChars(key), quote) \o eq
                        \o placeHolder(toPositionedParameter, st.index)),
             binds |->
               Append(st.binds,
                      toBindValue(keyType(keys, key), entries[k].value)),
             index |-> st.index + 1],
            keys, toPositionedParameter, quote, eq)


toUpdateStatementWithBinds(schemaName, tableName, keys, entries, conds, toPositionedParameter, quote) ==
  LET tableNameWithSchema ==
        createTableNameWithSchema(schemaName, tableName, quote)
      set == assignEntries(entries, 1,
                           [list |-> <<>>, binds |-> <<>>, index |-> 0],
                           keys, toPositionedParameter, quote,
                           <<" ", "=", " ">>)
      where == assignEntries(conds, 1,
                             [list |-> <<>>, binds |-> set.binds,
                              index |-> set.index],
                             keys, toPositionedParameter, quote,
                             <<" ", "=", " ">>)
  IN Statement(<<"U", "P", "D", "A", "T", "E", " ">> \o tableNameWithSchema
                 \o <<" ", "S", "E", "T", " ">> \o Join(set.list, <<",">>)
                 \o <<" ", "W", "H", "E", "R", "E", " ">>
                 \o Join(where.list, <<" ", "A", "N", "D", " ">>),
               where.binds)

toDeleteStatementWithBinds(schemaName, tableName, keys, conds, toPositionedParameter, quote) ==
  LET tableNameWithSchema ==
        createTableNameWithSchema(schemaName, tableName, quote)
      where == assignEntries(conds, 1,
                             [list |-> <<>>, binds |-> <<>>, index |-> 0],
                             keys, toPositionedParameter, quote,
                             <<" ", " ", "=", " ">>)
  IN Statement(<<"D", "E", "L", "E", "T", "E", " ", "F", "R", "O", "M", " ">>
                 \o tableNameWithSchema
                 \o <<" ", "W", "H", "E", "R", "E", " ">>
                 \o Join(where.list, <<" ", "A", "N", "D", " ">>),
               where.binds)

\* the table the statements are built for: no schema name, table t
StmtSchema == <<>>
StmtTable == <<"t">>
StmtQuote == FALSE

(***************************************************************************)
(* RDSBaseDriver.resetDefaultSchema                                        *)
(***************************************************************************)
\* the search names with the user before the database
searchNamesUserFirst(conf) ==
  (IF conf.user # "" THEN <<conf.user>> ELSE <<>>)
    \o (IF conf.database # "" THEN <<conf.database>> ELSE <<>>)
    \o <<"public">>

\* if (this.conRes.database) ... if (this.conRes.user) ... push('public');
\* an option that is not configured is the empty string
searchNames(conf) ==
  (IF conf.database # "" THEN <<conf.database>> ELSE <<>>)
    \o (IF conf.user # "" THEN <<conf.user>> ELSE <<>>)
    \o <<"public">>

\* children.findIndex((it) => it.name == searchName), 0 for -1
findIndex(children, searchName) ==
  LET Hit == {i \in 1..Len(children) : children[i].name = searchName}
  IN IF Hit = {} THEN 0 ELSE Least(Hit)

\* children.splice(idx, 1) then children.unshift(defaultSchema)
moveToFront(children, idx) ==
  <<children[idx]>> \o SubSeq(children, 1, idx - 1)
    \o SubSeq(children, idx + 1, Len(children))

resetDefaultSchema(conf, db) ==
  LET names == searchNames(conf)
      Found == {k \in 1..Len(names) : findIndex(db.children, names[k]) > 0}
  IN IF Found # {}
     THEN LET idx == findIndex(db.children, names[Least(Found)])
          IN [db EXCEPT
                !.children =
                  moveToFront([@ EXCEPT ![idx].isDefault = TRUE], idx)]
     ELSE IF Len(db.children) > 0
     THEN [db EXCEPT !.children[1].isDefault = TRUE]
     ELSE db

(***************************************************************************)
(* Inputs                                                                  *)
(***************************************************************************)
Vals == {S(<<"a">>), S(<<"a", "|", ":", "|", "a">>)}

KeyLists == {<<"id", "name">>, <<"id">>}

RowsOf(keys) ==
  {[values |-> f, meta |-> EmptyMeta] : f \in [Range(keys) -> Vals]}

CompareKeyLists ==
  {<<>>,
   <<PrimaryKey(<<"id", "name">>)>>,
   <<UniqKey("id")>>,
   <<CustomKey(<<"id", "name">>), UniqKey("id")>>}

ResultSet(keys, rows, compareKeys) ==
  [keys |-> keys, rows |-> rows, compareKeys |-> compareKeys]

\* true exactly when id is "a"
CondIdIsA == AllOf(<<Leaf("id", "equal", S(<<"a">>))>>)
\* true exactly when id is not "a"
CondIdIsNotA ==
  AnyOf(<<Leaf("id", "startsWith", S(<<"a", "|">>)),
          AllOf(<<Leaf("id", "isNotNull", Undefined),
                  Leaf("id", "notEqual", S(<<"a">>))>>)>>)

RuleName(i) == IF i = 1 THEN "r1" ELSE IF i = 2 THEN "r2" ELSE "r3"

Detail(i, conditions, column, limit) ==
  [ruleName |-> RuleName(i), conditions |-> conditions,
   error |-> [column |-> column, limit |-> limit]]

RuleChoices == {CondIdIsA, CondIdIsNotA} \X (0..MaxLimit)

TableRules ==
  UNION {{[details |-> [i \in 1..n |->
                          Detail(i, f[i][1],
                                 IF f[i][1] = CondIdIsA THEN "id" ELSE "name",
                                 f[i][2])]] :
            f \in [1..n -> RuleChoices]} : n \in 0..MaxRules}

\* what query texts are put together from
Pieces ==
  {<<":", "a">>, <<":", "b">>, <<":">>, <<"\n">>, <<"-", "-", " ">>,
   <<"#", " ">>, <<"/", "*">>, <<"*", "/">>}

RECURSIVE Concat(_)
Concat(parts) == IF Len(parts) = 0 THEN <<>> ELSE Head(parts) \o Concat(Tail(parts))

Queries == UNION {{Concat(f) : f \in [1..n -> Pieces]} : n \in 0..MaxPieces}

ParamNames == {<<"a">>, <<"b">>}

ValuesOfA ==
  {Absent, Scalar(5)} \cup {Arr([j \in 1..n |-> Scalar(j)]) : n \in 0..MaxArr}
ValuesOfB == {Absent, Scalar(7)}

\* a bind map holds the names that have a value
BindMaps ==
  {BindParams([w \in {x \in ParamNames : f[x].kind # "undefined"} |-> f[w]]) :
     f \in {g \in [ParamNames -> ValuesOfA \cup ValuesOfB] :
              g[<<"a">>] \in ValuesOfA /\ g[<<"b">>] \in ValuesOfB}}

NoOutput ==
  [op |-> "none", kind |-> "none", query |-> <<>>, binds |-> <<>>,
   missing |-> <<>>]

Output(op, r) ==
  [op |-> op, kind |-> r.kind, query |-> r.query, binds |-> r.binds,
   missing |-> r.missing]

\* what the last call on the result sets gave back, and the calls made so far
NoResult ==
  [op |-> "none", ok |-> FALSE, deleted |-> 0, inserted |-> 0, updated |-> 0,
   message |-> <<"", 0, 0, 0>>, counters |-> <<>>, evaluated |-> 0,
   log |-> <<>>]

(***************************************************************************)
(* Operations on result sets                                               *)
(***************************************************************************)
Diff ==
  /\ calls < MaxCalls
  /\ LET d == diff(rdh1, rdh2)
     IN /\ rdh1' = d.rdh1
        /\ rdh2' = d.rdh2
        /\ res' = [NoResult EXCEPT !.op = "diff",
                                   !.ok = d.result.ok,
                                   !.deleted = d.result.deleted,
                                   !.inserted = d.result.inserted,
                                   !.updated = d.result.updated,
                                   !.message = d.result.message,
                                   !.log = Append(res.log, "diff")]
  /\ calls' = calls + 1
  /\ UNCHANGED <<tableRule, sql, bindParams, out, viewConditions, otherVars>>

Validate ==
  /\ calls < MaxCalls
  /\ LET r == runRuleEngine(rdh1, tableRule)
     IN /\ rdh1' = r.rdh
        /\ res' = [NoResult EXCEPT !.op = "validate",
                                   !.ok = r.ok,
                                   !.counters = r.counters,
                                   !.evaluated = r.evaluated,
                                   !.log = Append(res.log, "validate")]
  /\ calls' = calls + 1
  /\ UNCHANGED <<rdh2, tableRule, sql, bindParams, out, viewConditions, otherVars>>

NormalizePositioned ==
  /\ out' = Output("positioned",
                    normalizePositionedParametersQuery(sql, bindParams))
  /\ UNCHANGED <<rdh1, rdh2, tableRule, res, calls, sql, bindParams,
                 viewConditions, otherVars>>

NormalizeSimple ==
  /\ out' = Output("simple", normalizeSimpleParametersQuery(sql, bindParams))
  /\ UNCHANGED <<rdh1, rdh2, tableRule, res, calls, sql, bindParams,
                 viewConditions, otherVars>>

\* no statement is being built
StmtIdle == stmtKeys = <<>> /\ stmtValues = <<>> /\ stmtConditions = <<>>

\* no database has been read
SchemaIdle ==
  database = [children |-> <<>>] /\ conRes = [database |-> "", user |-> ""]

\* no transaction is being run
TxIdle ==
  /\ isConnected = FALSE
  /\ flow = [pc |-> "idle",
             options |-> [given |-> FALSE, transactionControlType |-> ""],
             transactionControlType |-> "", ok |-> TRUE,
             message |-> "", result |-> FALSE, pending |-> "",
             returned |-> [kind |-> "none", ok |-> FALSE, message |-> "",
                           result |-> FALSE]]
  /\ log = <<>>

OtherIdle == StmtIdle /\ SchemaIdle /\ TxIdle

\* two result sets to compare; the old one may have been validated before
InitDiff ==
  /\ \E k1 \in KeyLists, k2 \in KeyLists, n1 \in 0..MaxRows :
       \E n2 \in 0..(MaxRows - n1) :
         \E rows1 \in [1..n1 -> RowsOf(k1)], rows2 \in [1..n2 -> RowsOf(k2)],
            cks \in CompareKeyLists :
           /\ rdh1 = ResultSet(k1, rows1, cks)
           /\ rdh2 = ResultSet(k2, rows2, <<>>)
  /\ tableRule = [details |-> <<Detail(1, CondIdIsA, "id", MaxLimit)>>]
  /\ res = NoResult
  /\ calls = 0
  /\ sql = <<>> /\ bindParams = NoBindParams /\ out = NoOutput
  /\ viewConditions = NoConditions
  /\ OtherIdle

NextDiff == Diff \/ Validate

SpecDiff == InitDiff /\ [][NextDiff]_vars

\* one result set and a rule set to validate it with
InitRule ==
  /\ \E n \in 0..MaxRows :
       \E rows \in [1..n -> RowsOf(<<"id">>)] :
         rdh1 = ResultSet(<<"id">>, rows, <<>>)
  /\ rdh2 = ResultSet(<<"id">>, <<>>, <<>>)
  /\ tableRule \in TableRules
  /\ res = NoResult
  /\ calls = 0
  /\ sql = <<>> /\ bindParams = NoBindParams /\ out = NoOutput
  /\ viewConditions = NoConditions
  /\ OtherIdle

NextRule == Validate

SpecRule == InitRule /\ [][NextRule]_vars

\* a query text and, possibly, a bind map
InitNorm ==
  /\ sql \in Queries
  /\ bindParams \in BindMaps \cup {NoBindParams}
  /\ out = NoOutput
  /\ viewConditions = NoConditions
  /\ OtherIdle
  /\ rdh1 = ResultSet(<<"id">>, <<>>, <<>>)
  /\ rdh2 = ResultSet(<<"id">>, <<>>, <<>>)
  /\ tableRule = [details |-> <<>>]
  /\ res = NoResult
  /\ calls = 0

NextNorm == NormalizePositioned \/ NormalizeSimple

SpecNorm == InitNorm /\ [][NextNorm]_vars

\* the values of the leaves of a tree
SingleValues == {Absent, Str(<<"1">>), Str(<<"x">>)}
ListValues ==
  {NullValue, Str(<<"1", ",", "x">>), Str(<<"[", "x", "]">>)}
    \cup {Arr([j \in 1..n |-> Str(Decimal(j))]) : n \in 1..MaxArr}

Leaves ==
  UNION {{Leaf(f, "isNull", Absent)}
           \cup {Leaf(f, "equal", v) : v \in SingleValues}
           \cup {Leaf(f, o, v) : o \in {"between", "in"}, v \in ListValues} :
         f \in ColNames}

NestedGroups ==
  {AllConditions(<<>>),
   AnyConditions(<<Leaf("id", "isNull", Absent)>>),
   AnyConditions(<<Leaf("id", "between", Str(<<"1", ",", "2">>)),
                   Leaf("name", "equal", Str(<<"x">>))>>)}

Trees ==
  UNION {{AllConditions(f), AnyConditions(f)} :
           f \in UNION {[1..n -> Leaves \cup NestedGroups] : n \in 0..MaxItems}}

\* toViewDataQuery in either placeholder style
ToViewDataQuery(toPositionedParameter) ==
  /\ LET r == toViewDataQuery(ViewTable, ViewSchema, viewConditions, ViewQuote,
                              toPositionedParameter)
     IN /\ sql' = r.query
        /\ bindParams' = r.bindParams
        /\ out' = Output(IF toPositionedParameter THEN "view-positioned"
                         ELSE "view-simple", r.result)
  /\ UNCHANGED <<rdh1, rdh2, tableRule, res, calls, viewConditions, otherVars>>

\* a tree of conditions (or none) to build a view-data query from
InitView ==
  /\ viewConditions \in Trees \cup {NoConditions}
  /\ OtherIdle
  /\ sql = <<>> /\ bindParams = NoBindParams /\ out = NoOutput
  /\ rdh1 = ResultSet(<<"id">>, <<>>, <<>>)
  /\ rdh2 = ResultSet(<<"id">>, <<>>, <<>>)
  /\ tableRule = [details |-> <<>>]
  /\ res = NoResult
  /\ calls = 0

NextView == \E toPositionedParameter \in BOOLEAN :
              ToViewDataQuery(toPositionedParameter)

SpecView == InitView /\ [][NextView]_vars

\* the raw values of a column and the columns of the statement builders
ColTypes ==
  {"text", "numeric", "boolean", "date", "datetime", "time", "binary"}

RawValues ==
  {Absent, NullValue, Str(<<>>), Str(<<"1">>), Str(<<"x">>), Str(<<"t">>),
   Str(<<"1", "-", "2">>), Str(<<"1", ":", "2">>), Scalar(5)}

Entry(key, value) == [key |-> key, value |-> value]

\* the objects of up to MaxItems entries, in the order of their keys
EntryLists(entries) ==
  UNION {{f \in [1..n -> entries] :
            \A i, j \in 1..n : f[i].key = f[j].key => i = j} :
         n \in 0..MaxItems}

BuildKeys ==
  {<<[name |-> "id", type |-> "numeric"], [name |-> "name", type |-> "text"]>>,
   <<[name |-> "id", type |-> "boolean"]>>}

ValueEntries ==
  {Entry(k, v) : k \in {"id", "name"},
                 v \in {Absent, NullValue, Str(<<>>), Str(<<"1">>),
                        Str(<<"x">>)}}

ConditionEntries ==
  {Entry("id", NullValue), Entry("id", Str(<<"1">>)), Entry("id", Str(<<"x">>)),
   Entry("name", Str(<<"x">>))}

\* toBindValue on the first entry of the values, by the type of its column
ToBindValue ==
  /\ Len(stmtValues) > 0
  /\ out' = Output("toBindValue",
                    Statement(<<>>,
                              <<toBindValue(keyType(stmtKeys, stmtValues[1].key),
                                            stmtValues[1].value)>>))
  /\ UNCHANGED <<rdh1, rdh2, tableRule, res, calls, sql, bindParams,
                 viewConditions, otherVars>>

ToInsertStatementWithBinds(toPositionedParameter) ==
  /\ out' = Output(IF toPositionedParameter THEN "insert-positioned"
                   ELSE "insert-simple",
                   toInsertStatementWithBinds(StmtSchema, StmtTable, stmtKeys,
                                              stmtValues, toPositionedParameter,
                                              StmtQuote))
  /\ UNCHANGED <<rdh1, rdh2, tableRule, res, calls, sql, bindParams,
                 viewConditions, otherVars>>

ToUpdateStatementWithBinds(toPositionedParameter) ==
  /\ out' = Output(IF toPositionedParameter THEN "update-positioned"
                   ELSE "update-simple",
                   toUpdateStatementWithBinds(StmtSchema, StmtTable, stmtKeys,
                                              stmtValues, stmtConditions,
                                              toPositionedParameter, StmtQuote))
  /\ UNCHANGED <<rdh1, rdh2, tableRule, res, calls, sql, bindParams,
                 viewConditions, otherVars>>

ToDeleteStatementWithBinds(toPositionedParameter) ==
  /\ out' = Output(IF toPositionedParameter THEN "delete-positioned"
                   ELSE "delete-simple",
                   toDeleteStatementWithBinds(StmtSchema, StmtTable, stmtKeys,
                                              stmtConditions,
                                              toPositionedParameter, StmtQuote))
  /\ UNCHANGED <<rdh1, rdh2, tableRule, res, calls, sql, bindParams,
                 viewConditions, otherVars>>

\* everything but the statement builders' arguments is idle
InitIdle ==
  /\ rdh1 = ResultSet(<<"id">>, <<>>, <<>>)
  /\ rdh2 = ResultSet(<<"id">>, <<>>, <<>>)
  /\ tableRule = [details |-> <<>>]
  /\ res = NoResult
  /\ calls = 0
  /\ sql = <<>> /\ bindParams = NoBindParams /\ out = NoOutput
  /\ viewConditions = NoConditions

\* one raw value of a column of one type (or of no known column)
InitBind ==
  /\ InitIdle
  /\ SchemaIdle
  /\ TxIdle
  /\ stmtKeys \in {<<[name |-> "id", type |-> t]>> : t \in ColTypes} \cup {<<>>}
  /\ stmtValues \in {<<Entry("id", v)>> : v \in RawValues}
  /\ stmtConditions = <<>>

NextBind == ToBindValue

SpecBind == InitBind /\ [][NextBind]_vars

\* the columns, values and conditions of a statement
InitBuild ==
  /\ InitIdle
  /\ SchemaIdle
  /\ TxIdle
  /\ stmtKeys \in BuildKeys
  /\ stmtValues \in EntryLists(ValueEntries)
  /\ stmtConditions \in EntryLists(ConditionEntries)

NextBuild ==
  \E toPositionedParameter \in BOOLEAN :
    \/ ToInsertStatementWithBinds(toPositionedParameter)
    \/ ToUpdateStatementWithBinds(toPositionedParameter)
    \/ ToDeleteStatementWithBinds(toPositionedParameter)

SpecBuild == InitBuild /\ [][NextBuild]_vars

\* the schemas of a database as they are read: none is the default yet;
\* id tells schemas of one name apart
MaxSchemas == 3

SchemaNames == {"db", "usr", "public", "s"}

Schema(id, name) == [id |-> id, name |-> name, isDefault |-> FALSE]

Databases ==
  UNION {{[children |-> [i \in 1..n |-> Schema(i, f[i])]] :
            f \in [1..n -> SchemaNames]} : n \in 0..MaxSchemas}

ConnectionSettings ==
  {[database |-> d, user |-> u] : d \in {"", "db"}, u \in {"", "usr", "db"}}

ResetDefaultSchema ==
  /\ calls < MaxCalls
  /\ database' = resetDefaultSchema(conRes, database)
  /\ calls' = calls + 1
  /\ UNCHANGED <<rdh1, rdh2, tableRule, res, sql, bindParams, out,
                 viewConditions, stmtVars, conRes, txVars>>

InitSchema ==
  /\ InitIdle
  /\ StmtIdle
  /\ TxIdle
  /\ database \in Databases
  /\ conRes \in ConnectionSettings

NextSchema == ResetDefaultSchema

SpecSchema == InitSchema /\ [][NextSchema]_vars

(***************************************************************************)
(* RDSBaseDriver.flowTransaction                                           *)
(***************************************************************************)

TransactionControlTypes == {"alwaysCommit", "alwaysRollback", "rollbackOnError"}

\* the options argument: absent, or one control type
NoOptions == [given |-> FALSE, transactionControlType |-> ""]

Options(t) == [given |-> TRUE, transactionControlType |-> t]

\* the control type in force: rollbackOnError unless options is given
controlTypeOf(options) ==
  IF options.given THEN options.transactionControlType ELSE "rollbackOnError"

\* the call that ends the try block after the callback returned
callAfterCallback(transactionControlType) ==
  IF transactionControlType \in {"alwaysCommit", "rollbackOnError"}
  THEN "commit"
  ELSE IF transactionControlType = "alwaysRollback" THEN "rollback"
  ELSE "none"

\* a catch block that rolls back whatever the control type
callInCatchAlwaysRollback(transactionControlType) == "rollback"

\* the call the catch block makes
callInCatch(transactionControlType) ==
  IF transactionControlType = "alwaysCommit" THEN "commit"
  ELSE IF transactionControlType \in {"alwaysRollback", "rollbackOnError"}
  THEN "rollback"
  ELSE "none"

\* a try statement whose finally block is skipped when the call made in the
\* catch block throws
nextPositionLeavingOnThrow(pc, threw) ==
  CASE pc = "begin" -> IF threw THEN "catch" ELSE "callback"
    [] pc = "callback" -> IF threw THEN "catch" ELSE "end"
    [] pc = "end" -> IF threw THEN "catch" ELSE "finally"
    [] pc = "catch" -> IF threw THEN "done" ELSE "finally"
    [] OTHER -> "done"

\* where control goes from a position of the try statement when the call
\* made there returns or throws: a throw inside try enters catch, and both
\* the end of try and every exit of catch enter finally
nextPosition(pc, threw) ==
  CASE pc = "begin" -> IF threw THEN "catch" ELSE "callback"
    [] pc = "callback" -> IF threw THEN "catch" ELSE "end"
    [] pc = "end" -> IF threw THEN "catch" ELSE "finally"
    [] pc = "catch" -> "finally"
    [] OTHER -> "done"

\* one call on the driver (or of the callback f) and how it came back:
\* "returned", "threw", or for connect "reported" (an error message)
Call(name, outcome) == [call |-> name, outcome |-> outcome]

\* the message of the Error a failing call throws or reports
ErrorOf(name) == name \o " failed"

Outcome(threw) == IF threw THEN "threw" ELSE "returned"

\* how the promise of flowTransaction settles
Pending == [kind |-> "none", ok |-> FALSE, message |-> "", result |-> FALSE]

Resolved(ok, message, result) ==
  [kind |-> "result", ok |-> ok, message |-> message, result |-> result]

Rejected(message) ==
  [kind |-> "rejected", ok |-> FALSE, message |-> message, result |-> FALSE]

\* the locals of a fresh activation
Activation(options) ==
  [pc |-> "entry", options |-> options,
   transactionControlType |-> controlTypeOf(options),
   ok |-> TRUE, message |-> "", result |-> FALSE, pending |-> "",
   returned |-> Pending]

TxUnchanged ==
  UNCHANGED <<rdh1, rdh2, tableRule, res, calls, sql, bindParams, out,
              viewConditions, stmtVars, schemaVars>>

\* if (this.isConnected) await this.disconnect()
DisconnectFirst ==
  /\ flow.pc = "entry"
  /\ isConnected
  /\ \E threw \in BOOLEAN :
       /\ log' = Append(log, Call("disconnect", Outcome(threw)))
       /\ isConnected' = threw
       /\ flow' = IF threw
                  THEN [flow EXCEPT !.pc = "done",
                                    !.returned = Rejected(ErrorOf("disconnect"))]
                  ELSE [flow EXCEPT !.pc = "connect"]
  /\ TxUnchanged

\* message = await this.connect(); if (message) return {ok: false, message}
Connect ==
  /\ \/ flow.pc = "connect"
     \/ flow.pc = "entry" /\ ~isConnected
  /\ \E message \in {"", ErrorOf("connect")} :
       /\ log' = Append(log, Call("connect", IF message = "" THEN "returned"
                                             ELSE "reported"))
       /\ isConnected' = (message = "")
       /\ flow' = IF message # ""
                  THEN [flow EXCEPT !.pc = "done", !.message = message,
                                    !.returned = Resolved(FALSE, message, FALSE)]
                  ELSE [flow EXCEPT !.pc = "begin", !.message = message]
  /\ TxUnchanged

\* a call inside the try block: when it throws, the catch block receives
\* the error
TryCall(name, threw) ==
  /\ log' = Append(log, Call(name, Outcome(threw)))
  /\ flow' = [flow EXCEPT !.pc = nextPosition(flow.pc, threw),
                          !.pending = IF threw THEN ErrorOf(name) ELSE "",
                          !.result = IF name = "f" /\ ~threw THEN TRUE ELSE @]
  /\ UNCHANGED isConnected

\* await this.begin()
Begin ==
  /\ flow.pc = "begin"
  /\ \E threw \in BOOLEAN : TryCall("begin", threw)
  /\ TxUnchanged

\* result = await f(this)
Callback ==
  /\ flow.pc = "callback"
  /\ \E threw \in BOOLEAN : TryCall("f", threw)
  /\ TxUnchanged

\* the commit or rollback that ends the try block
EndTransaction ==
  /\ flow.pc = "end"
  /\ LET name == callAfterCallback(flow.transactionControlType) IN
       IF name = "none"
       THEN /\ flow' = [flow EXCEPT !.pc = nextPosition(flow.pc, FALSE)]
            /\ UNCHANGED <<log, isConnected>>
       ELSE \E threw \in BOOLEAN : TryCall(name, threw)
  /\ TxUnchanged

\* catch (e): ok = false, message = e.message, then commit or rollback; an
\* error thrown here is kept until the finally block has run
Catch ==
  /\ flow.pc = "catch"
  /\ LET name == callInCatch(flow.transactionControlType)
         caught == [flow EXCEPT !.ok = FALSE, !.message = flow.pending,
                                !.pending = ""]
     IN
       IF name = "none"
       THEN /\ flow' = [caught EXCEPT !.pc = nextPosition(flow.pc, FALSE)]
            /\ UNCHANGED <<log, isConnected>>
       ELSE \E threw \in BOOLEAN :
              /\ log' = Append(log, Call(name, Outcome(threw)))
              /\ flow' = [caught EXCEPT
                            !.pc = nextPosition(flow.pc, threw),
                            !.pending = IF threw THEN ErrorOf(name) ELSE ""]
              /\ UNCHANGED isConnected
  /\ TxUnchanged

\* finally: await this.disconnect(); then the pending error is thrown on,
\* or {ok, message, result} is returned
Finally ==
  /\ flow.pc = "finally"
  /\ \E threw \in BOOLEAN :
       /\ log' = Append(log, Call("disconnect", Outcome(threw)))
       /\ isConnected' = (threw /\ isConnected)
       /\ flow' = [flow EXCEPT
                     !.pc = "done",
                     !.returned =
                        IF threw THEN Rejected(ErrorOf("disconnect"))
                        ELSE IF flow.pending # "" THEN Rejected(flow.pending)
                        ELSE Resolved(flow.ok, flow.message, flow.result)]
  /\ TxUnchanged

\* one call of flowTransaction on a driver that is connected or not, with
\* or without options
InitTx ==
  /\ InitIdle
  /\ StmtIdle
  /\ SchemaIdle
  /\ isConnected \in BOOLEAN
  /\ flow \in {Activation(o) :
                 o \in {NoOptions} \cup {Options(t) : t \in TransactionControlTypes}}
  /\ log = <<>>

NextTx ==
  \/ DisconnectFirst
  \/ Connect
  \/ Begin
  \/ Callback
  \/ EndTransaction
  \/ Catch
  \/ Finally

SpecTx == InitTx /\ [][NextTx]_vars

(***************************************************************************)
(* Reading annotations and keys off a state                                *)
(***************************************************************************)
\* the annotations of one type a row carries at one column
AnnotationsOf(row, column, type) ==
  SelectSeq(row.meta[column], LAMBDA a : a.type = type)

HasType(row, type) ==
  \E c \in ColNames : Len(AnnotationsOf(row, c, type)) > 0

HasRul(row, ruleName) ==
  \E c \in ColNames : \E k \in 1..Len(row.meta[c]) :
    row.meta[c][k].type = "Rul" /\ row.meta[c][k].name = ruleName

HasDiffAnnotation(row) ==
  HasType(row, "Add") \/ HasType(row, "Del") \/ HasType(row, "Upd")

RowIds(rdh) == 1..Len(rdh.rows)

FactsOfRow(i) == [k \in Range(rdh1.keys) |-> ValueOf(rdh1.rows[i], k)]

RuleIds == 1..Len(tableRule.details)

\* the columns a compare key refers to
KeyColumns(ck) ==
  IF ck.kind = "uniq" THEN {ck.name} ELSE Range(ck.names)

Covered(ck, rdh) == KeyColumns(ck) \subseteq Range(rdh.keys)

\* the member values of a row under a compare key, column by column
KeyTuple(ck, row) == [c \in KeyColumns(ck) |-> ValueOf(row, c)]

UsedKey == diffCompareKey(rdh1)

KeyValue(row) == createCompareKeysValue(UsedKey, row)

DiffDone == res.op = "diff" /\ res.ok

C5_RepeatedValidateKeepsAnnotations ==
  [][(res.op = "validate" /\ res'.op = "validate")
       => rdh1'.rows = rdh1.rows]_vars

\* C6: a diff whose compare key names a column that the old or the new set
\* does not have returns ok:false and leaves no diff annotation.
C6_MissingKeyColumnFails ==
  (res.op = "diff"
   /\ (UsedKey.kind = "none" \/ ~Covered(UsedKey, rdh2)))
    => /\ ~res.ok
       /\ \A i \in RowIds(rdh1) : ~HasDiffAnnotation(rdh1.rows[i])
       /\ \A j \in RowIds(rdh2) : ~HasDiffAnnotation(rdh2.rows[j])

\* the old set declares no compare key, or none that its columns cover
NoUsableKey(rdh) ==
  \/ Len(rdh.compareKeys) = 0
  \/ \A k \in 1..Len(rdh.compareKeys) : ~Covered(rdh.compareKeys[k], rdh)

\* C7: a diff of an old set without usable compare key returns ok:false, a
\* message, three zero counters, and changes no annotation of either set.
C7_NoUsableKeyChangesNothing ==
  [][(res'.op = "diff" /\ calls' = calls + 1 /\ NoUsableKey(rdh1))
       => /\ ~res'.ok
          /\ res'.message[1] # ""
          /\ res'.deleted = 0 /\ res'.inserted = 0 /\ res'.updated = 0
          /\ rdh1' = rdh1
          /\ rdh2' = rdh2]_vars

\* a failed diff of a set that declares a key and carries annotations
C7_Witness ==
  /\ res.op = "diff"
  /\ ~res.ok
  /\ Len(rdh1.compareKeys) > 0
  /\ \E i \in RowIds(rdh1) : HasType(rdh1.rows[i], "Rul")

\* C8: under a composite key that both sets cover, an old row that was
\* matched (it got no Del) has a new row with the same member values.
C8_MatchedRowsAgreeOnEveryMember ==
  (DiffDone /\ UsedKey.kind \in {"primary", "custom"} /\ Covered(UsedKey, rdh2))
    => \A i \in RowIds(rdh1) :
         ~HasType(rdh1.rows[i], "Del")
           => \E j \in RowIds(rdh2) :
                KeyTuple(UsedKey, rdh2.rows[j]) = KeyTuple(UsedKey, rdh1.rows[i])

\* the new rows whose compare-key value no old row has
InsertedRows ==
  {j \in RowIds(rdh2) :
     \A i \in RowIds(rdh1) : KeyValue(rdh1.rows[i]) # KeyValue(rdh2.rows[j])}

\* C9: after a successful diff every inserted new row has exactly one Add on
\* each of the new set's columns, and inserted counts these rows.
C9_InsertedRowsFullyMarked ==
  DiffDone
    => /\ \A j \in InsertedRows : \A c \in Range(rdh2.keys) :
            Len(AnnotationsOf(rdh2.rows[j], c, "Add")) = 1
       /\ res.inserted = Cardinality(InsertedRows)

\* the old rows whose compare-key value no new row has
DeletedRows ==
  {i \in RowIds(rdh1) :
     \A j \in RowIds(rdh2) : KeyValue(rdh2.rows[j]) # KeyValue(rdh1.rows[i])}

DelOnly == <<Annotation("Del", Undefined, "")>>

\* C10: after a successful diff every old row without counterpart carries
\* one Del on each column of the old set and nothing else, deleted counts
\* these rows, and no other old row carries a Del.
C10_DeletedRowsMarked ==
  DiffDone
    => /\ \A i \in DeletedRows : \A c \in ColNames :
            rdh1.rows[i].meta[c] =
              IF c \in Range(rdh1.keys) THEN DelOnly ELSE <<>>
       /\ res.deleted = Cardinality(DeletedRows)
       /\ \A i \in RowIds(rdh1) \ DeletedRows : ~HasType(rdh1.rows[i], "Del")

\* a successful diff with a deleted old row and a matched old row
C10_Witness ==
  /\ DiffDone
  /\ DeletedRows # {}
  /\ RowIds(rdh1) \ DeletedRows # {}

\* the new row an old row is matched with: the first one, in row order, with
\* the old row's compare-key value (0 if there is none)
MatchOf(i) ==
  LET M == {j \in RowIds(rdh2) : KeyValue(rdh2.rows[j]) = KeyValue(rdh1.rows[i])}
  IN IF M = {} THEN 0 ELSE Least(M)

Differ(i, j, c) ==
  Stringify(ValueOf(rdh1.rows[i], c)) # Stringify(ValueOf(rdh2.rows[j], c))

UpdOf(value) == <<Annotation("Upd", value, "")>>

\* C11: after a successful diff, for an old row and the new row matched with
\* it and a column of the old set: if the stringified values differ, each of
\* the two rows carries one Upd on the column, with the other row's value;
\* if they are the same, neither row carries an Upd on the column.
C11_UpdExactlyWhereValuesDiffer ==
  DiffDone
    => \A i \in RowIds(rdh1) :
         LET j == MatchOf(i) IN
         j # 0 =>
           \A c \in Range(rdh1.keys) :
             LET a1 == AnnotationsOf(rdh1.rows[i], c, "Upd")
                 a2 == AnnotationsOf(rdh2.rows[j], c, "Upd")
             IN IF Differ(i, j, c)
                THEN /\ a1 = UpdOf(ValueOf(rdh2.rows[j], c))
                     /\ a2 = UpdOf(ValueOf(rdh1.rows[i], c))
                ELSE a1 = <<>> /\ a2 = <<>>

\* no two rows of a set have the same compare-key value
DistinctKeys(rdh) ==
  \A i, k \in RowIds(rdh) :
    KeyValue(rdh.rows[i]) = KeyValue(rdh.rows[k]) => i = k

\* C11 for sets in which no two old rows have the same compare-key value
C11_UpdWhereDifferOnDistinctOldKeys ==
  (DiffDone /\ DistinctKeys(rdh1)) => C11_UpdExactlyWhereValuesDiffer

\* the columns of the old set in which an old row and a new row differ
DifferingColumns(i, j) == {c \in Range(rdh1.keys) : Differ(i, j, c)}

\* the old rows that have a matching new row and differ from it
UpdatedRows ==
  {i \in RowIds(rdh1) :
     MatchOf(i) # 0 /\ DifferingColumns(i, MatchOf(i)) # {}}

\* C12: after a successful diff, updated is the number of old rows that have
\* a matching new row and differ from it in some column (once per row), and
\* deleted and inserted count the unmatched old and new rows, so that no row
\* is counted twice.
C12_CountersCountRowsOnce ==
  DiffDone
    => /\ res.updated = Cardinality(UpdatedRows)
       /\ res.deleted = Cardinality(DeletedRows)
       /\ res.inserted = Cardinality(InsertedRows)
       /\ res.updated + res.deleted <= Len(rdh1.rows)
       /\ res.inserted <= Len(rdh2.rows)

\* a successful diff with an old row that differs from its match in two
\* columns, next to a deleted or inserted row
C12_Witness ==
  /\ DiffDone
  /\ \E i \in UpdatedRows : Cardinality(DifferingColumns(i, MatchOf(i))) = 2
  /\ res.deleted + res.inserted > 0

\* C13: a diff that directly follows a diff of the same two sets returns the
\* counters and the message of the first and leaves every row of both sets
\* with the annotations it had after the first.
C13_RepeatedDiffIsIdempotent ==
  [][(res.op = "diff" /\ res'.op = "diff" /\ calls' = calls + 1)
       => /\ res'.ok = res.ok
          /\ res'.deleted = res.deleted
          /\ res'.inserted = res.inserted
          /\ res'.updated = res.updated
          /\ res'.message = res.message
          /\ rdh1'.rows = rdh1.rows
          /\ rdh2'.rows = rdh2.rows]_vars

\* two successful diffs in a row, after a validation that annotated an old
\* row, which found an updated, a deleted or an inserted row
C13_Witness ==
  /\ res.log = <<"validate", "diff", "diff">>
  /\ res.ok
  /\ res.updated + res.deleted + res.inserted > 0
  /\ \E i \in RowIds(rdh1) :
       /\ ~evaluate(tableRule.details[1].conditions, FactsOfRow(i))
       /\ HasDiffAnnotation(rdh1.rows[i])

\* a row violates a rule when the engine reports the rule as failed on it
Violates(i, j) == ~evaluate(tableRule.details[j].conditions, FactsOfRow(i))

ViolatingRows(j) == {i \in RowIds(rdh1) : Violates(i, j)}

\* the first n violating rows of a rule, in row order
FirstViolating(j, n) ==
  {i \in ViolatingRows(j) :
     Cardinality({k \in ViolatingRows(j) : k <= i}) <= n}

\* the Rul annotations of a rule among given annotations
RulOf(annotations, j) ==
  SelectSeq(annotations,
            LAMBDA a : a.type = "Rul" /\ a.name = tableRule.details[j].ruleName)

ValidateStep == res'.op = "validate" /\ calls' = calls + 1

C15_FalseIffSomeRowViolates ==
  res.op = "validate"
    => (~res.ok <=> \E i \in RowIds(rdh1) : \E j \in RuleIds : Violates(i, j))

\* C15 for rule sets in which some rule has a limit above zero
C15_FalseIffViolatedUnderPositiveLimit ==
  (\E j \in RuleIds : tableRule.details[j].error.limit > 0)
    => C15_FalseIffSomeRowViolates

\* what a rule's counter stands at when the rows up to row i are done
CountAfter(j, i) ==
  LET k == Cardinality({r \in ViolatingRows(j) : r <= i})
      L == tableRule.details[j].error.limit
  IN IF k < L THEN k ELSE L

AllReachedAfter(i) ==
  \A j \in RuleIds : CountAfter(j, i) >= tableRule.details[j].error.limit

\* the row after which every rule is at its limit (the last row if none is)
StopRow ==
  LET Stops == {i \in RowIds(rdh1) : AllReachedAfter(i)}
  IN IF Stops = {} THEN Len(rdh1.rows) ELSE Least(Stops)

Normalized == out.op \in {"positioned", "simple"}

\* the names of the :name tokens of a text
NamesIn(text) ==
  {SubSeq(text, p + 1, wordEnd(text, p)) :
     p \in {q \in 1..Len(text) : paramAt(text, q)}}

\* the names the query refers to, comments aside
Referenced == NamesIn(stripComment(sql))

MissingNames == {w \in Referenced : bindOf(bindParams, w).kind = "undefined"}

RECURSIVE WithNulls(_, _)
\* a text from place p on with each :name token replaced by the null literal
WithNulls(text, p) ==
  IF p > Len(text) THEN <<>>
  ELSE IF paramAt(text, p)
  THEN NullLiteral \o WithNulls(text, wordEnd(text, p) + 1)
  ELSE <<text[p]>> \o WithNulls(text, p + 1)

RECURSIVE OutsideComments(_, _)
\* a text from place p on without its comments, as SQL reads them: a block
\* comment runs from /* to the next */, a line comment from # or -- to the
\* end of its line
OutsideComments(text, p) ==
  IF p > Len(text) THEN <<>>
  ELSE LET two == IF p + 1 <= Len(text) THEN <<text[p], text[p + 1]>>
                  ELSE <<text[p]>>
           Ends == {q \in (p + 2)..(Len(text) - 1) :
                      text[q] = "*" /\ text[q + 1] = "/"}
           Breaks == {q \in p..Len(text) : text[q] = "\n"}
       IN IF two = <<"/", "*">> /\ Ends # {}
          THEN OutsideComments(text, Least(Ends) + 2)
          ELSE IF text[p] = "#" \/ two = <<"-", "-">>
          THEN IF Breaks = {} THEN <<>>
               ELSE OutsideComments(text, Least(Breaks))
          ELSE <<text[p]>> \o OutsideComments(text, p + 1)

Placeholders(text) == {p \in 1..Len(text) : text[p] \in {"$", "?"}}

\* the :name tokens of the query as it is scanned, by place
StrippedSql == stripComment(sql)

Tokens == {p \in 1..Len(StrippedSql) : paramAt(StrippedSql, p)}

NameAt(p) == SubSeq(StrippedSql, p + 1, wordEnd(StrippedSql, p))

FirstOccurrence(w) == Least({p \in Tokens : NameAt(p) = w})

IsArrayName(w) == bindOf(bindParams, w).kind = "array"

\* the number of positions a name takes
SizeOf(w) == IF IsArrayName(w) THEN Len(bindOf(bindParams, w).elems) ELSE 1

RECURSIVE SumOfSizes(_)
SumOfSizes(names) ==
  IF names = {} THEN 0
  ELSE LET w == CHOOSE x \in names : TRUE
       IN SizeOf(w) + SumOfSizes(names \ {w})

\* the next sequential position at the first occurrence of a name
PositionOf(w) ==
  1 + SumOfSizes({v \in Referenced : FirstOccurrence(v) < FirstOccurrence(w)})

Dollar(n) == <<"$">> \o Decimal(n)

\* what every occurrence of a name is to be rewritten to in positioned mode
PlaceholderOf(w) ==
  IF ~IsArrayName(w) THEN Dollar(PositionOf(w))
  ELSE IF SizeOf(w) = 0 THEN NullLiteral
  ELSE Join([j \in 1..SizeOf(w) |-> Dollar(PositionOf(w) + j - 1)], <<",">>)

RECURSIVE PositionedFrom(_)
\* the scanned query from place p on, each token replaced by its placeholder
PositionedFrom(p) ==
  IF p > Len(StrippedSql) THEN <<>>
  ELSE IF p \in Tokens
  THEN PlaceholderOf(NameAt(p)) \o PositionedFrom(wordEnd(StrippedSql, p) + 1)
  ELSE <<StrippedSql[p]>> \o PositionedFrom(p + 1)

ScalarNames == {w \in Referenced : ~IsArrayName(w)}

PositionedWithAllBound ==
  out.op = "positioned" /\ bindParams.given /\ MissingNames = {}

\* C17: positioned mode with every referenced name bound: each occurrence of
\* a scalar name is rewritten to $N, N the next sequential position at the
\* name's first occurrence, and the bind array has one slot per scalar name,
\* at N, holding its value (and no slot beyond those of the names).
C17_ScalarNameKeepsOnePosition ==
  PositionedWithAllBound
    => /\ out.kind = "ok"
       /\ out.query = PositionedFrom(1)
       /\ Len(out.binds) = SumOfSizes(Referenced)
       /\ \A w \in ScalarNames :
            /\ PositionOf(w) \in 1..Len(out.binds)
            /\ out.binds[PositionOf(w)] = bindOf(bindParams, w)
       /\ \A v, w \in ScalarNames : PositionOf(v) = PositionOf(w) => v = w

\* :a:b:a with {a: 5, b: 7} became $1$2$1 with binds [5, 7]
C17_Witness ==
  /\ out.op = "positioned"
  /\ sql = <<":", "a", ":", "b", ":", "a">>
  /\ out.query = <<"$", "1", "$", "2", "$", "1">>
  /\ out.binds = <<Scalar(5), Scalar(7)>>

\* the values one occurrence of a name binds in simple mode
ValuesOf(w) ==
  IF IsArrayName(w) THEN bindOf(bindParams, w).elems
  ELSE <<bindOf(bindParams, w)>>

RECURSIVE SimpleFrom(_)
\* the scanned query from place p on, each token replaced by one ? per value
SimpleFrom(p) ==
  IF p > Len(StrippedSql) THEN <<>>
  ELSE IF p \in Tokens
  THEN Join([j \in 1..Len(ValuesOf(NameAt(p))) |-> <<"?">>], <<",">>)
         \o SimpleFrom(wordEnd(StrippedSql, p) + 1)
  ELSE <<StrippedSql[p]>> \o SimpleFrom(p + 1)

RECURSIVE SimpleBindsFrom(_)
\* the values of the tokens from place p on, occurrence by occurrence
SimpleBindsFrom(p) ==
  IF p > Len(StrippedSql) THEN <<>>
  ELSE IF p \in Tokens
  THEN ValuesOf(NameAt(p)) \o SimpleBindsFrom(wordEnd(StrippedSql, p) + 1)
  ELSE SimpleBindsFrom(p + 1)

QuestionMarks(text) == {p \in 1..Len(text) : text[p] = "?"}

\* C18: simple mode with every referenced name bound: every occurrence of a
\* parameter writes one ? per value and pushes its values, so the bind array
\* lists the values occurrence by occurrence in text order and is as long as
\* the number of ? written.
C18_OneBindPerOccurrence ==
  (out.op = "simple" /\ bindParams.given /\ MissingNames = {})
    => /\ out.kind = "ok"
       /\ out.query = SimpleFrom(1)
       /\ out.binds = SimpleBindsFrom(1)
       /\ Cardinality(QuestionMarks(out.query)) = Len(out.binds)

\* :a:b:a with {a: 5, b: 7} became ??? with binds [5, 7, 5]
C18_Witness ==
  /\ out.op = "simple"
  /\ sql = <<":", "a", ":", "b", ":", "a">>
  /\ out.query = <<"?", "?", "?">>
  /\ out.binds = <<Scalar(5), Scalar(7), Scalar(5)>>

FilledArrayNames == {w \in Referenced : IsArrayName(w) /\ SizeOf(w) > 0}

\* the positions a name takes
BlockOf(w) == PositionOf(w)..(PositionOf(w) + SizeOf(w) - 1)

\* C19: positioned mode with every referenced name bound and some name bound
\* to a non-empty array of n elements: every occurrence of that name is
\* rewritten to the same list $p,...,$p+n-1, p the next sequential position
\* at the first occurrence; the block belongs to that name alone and the
\* bind array holds the array's elements, in order, at p..p+n-1.
C19_ArrayNameKeepsOneBlock ==
  (PositionedWithAllBound /\ FilledArrayNames # {})
    => /\ out.kind = "ok"
       /\ out.query = PositionedFrom(1)
       /\ \A w \in FilledArrayNames :
            /\ BlockOf(w) \subseteq 1..Len(out.binds)
            /\ \A j \in 1..SizeOf(w) :
                 out.binds[PositionOf(w) + j - 1] =
                   bindOf(bindParams, w).elems[j]
            /\ \A v \in Referenced \ {w} : BlockOf(v) \cap BlockOf(w) = {}

\* :b:a:a with {a: [1, 2], b: 7} became $1$2,$3$2,$3 with binds [7, 1, 2]
C19_Witness ==
  /\ out.op = "positioned"
  /\ sql = <<":", "b", ":", "a", ":", "a">>
  /\ out.query = <<"$", "1", "$", "2", ",", "$", "3", "$", "2", ",", "$", "3">>
  /\ out.binds = <<Scalar(7), Scalar(1), Scalar(2)>>

ViewDone == out.op \in {"view-positioned", "view-simple"}

RECURSIVE LeavesOf(_)
\* the leaves of a tree of conditions
LeavesOf(node) ==
  IF node.kind \in {"all", "any", "none"}
  THEN UNION {LeavesOf(node.items[k]) : k \in 1..Len(node.items)}
  ELSE {node}

\* C20: a view-data query built from a tree of conditions, in either
\* placeholder style, is returned without error whatever the values of the
\* leaves are, and every placeholder is bound to a value or to null, never
\* left undefined.
C20_LeafValuesNeverFail ==
  ViewDone
    => /\ out.kind = "ok"
       /\ \A k \in 1..Len(out.binds) :
            out.binds[k].kind \notin {"undefined", "unset"}

\* C20 for trees whose leaves are comparisons of the numeric column with a
\* single value
C20_SingleValuesOfTypedColumnNeverFail ==
  (\A l \in LeavesOf(viewConditions) :
     l.fact = "id" /\ l.operator \in {"equal", "isNull"})
    => C20_LeafValuesNeverFail

\* a query built from a leaf on the numeric column whose value is absent or
\* not a number, returned with null bound
C20_TypedColumnWitness ==
  /\ ViewDone
  /\ out.kind = "ok"
  /\ \E l \in LeavesOf(viewConditions) :
       /\ l.fact = "id" /\ l.operator = "equal"
       /\ l.value \in {Absent, Str(<<"x">>)}
  /\ \E k \in 1..Len(out.binds) : out.binds[k] = NullValue

\* C2: with a bind map that lacks a name the query refers to, either mode
\* fails, names exactly the missing parameters and returns nothing.
C2_MissingParameterFails ==
  (Normalized /\ bindParams.given /\ MissingNames # {})
    => /\ out.kind = "MissingBind"
       /\ Range(out.missing) = MissingNames
       /\ out.query = <<>>
       /\ out.binds = <<>>

\* C3: when every parameter of the query is bound to an empty array, either
\* mode writes the null literal for each of them and binds nothing.
C3_EmptyArrayBecomesNull ==
  (Normalized /\ bindParams.given /\ Referenced # {}
   /\ \A w \in Referenced : bindOf(bindParams, w) = Arr(<<>>))
    => /\ out.kind = "ok"
       /\ out.query = WithNulls(stripComment(sql), 1)
       /\ out.binds = <<>>

\* C4: a query whose :name tokens all lie in comments is normalized with a
\* bind map, in either mode, without error, without placeholder and without
\* bind value.
C4_CommentsHoldNoParameters ==
  (Normalized /\ bindParams.given
   /\ NamesIn(sql) # {} /\ NamesIn(OutsideComments(sql, 1)) = {})
    => /\ out.kind = "ok"
       /\ Placeholders(out.query) = {}
       /\ out.binds = <<>>

RECURSIVE LeafSeq(_, _)
\* the leaves under the nodes from the k-th on, depth first
LeafSeq(nodes, k) ==
  IF k > Len(nodes) THEN <<>>
  ELSE (IF isTopLevelCondition(nodes[k]) THEN LeafSeq(nodes[k].items, 1)
        ELSE <<nodes[k]>>) \o LeafSeq(nodes, k + 1)

ViewLeaves ==
  IF viewConditions.kind = "none" THEN <<>> ELSE LeafSeq(<<viewConditions>>, 1)

\* the number of placeholders a leaf is said to take
PlaceholdersOf(leaf) ==
  IF leaf.operator \in {"isNull", "isNotNull"} THEN 0
  ELSE IF leaf.operator = "between" THEN 2 ELSE 1

RECURSIVE PlaceholdersBefore(_, _)
PlaceholdersBefore(leaves, i) ==
  IF i <= 1 THEN 0
  ELSE PlaceholdersBefore(leaves, i - 1) + PlaceholdersOf(leaves[i - 1])

\* the places of the :name tokens of a text
TokensIn(text) == {p \in 1..Len(text) : paramAt(text, p)}

\* the place of the i-th of them
TokenAt(tokens, i) ==
  CHOOSE p \in tokens : Cardinality({t \in tokens : t < p}) = i - 1

\* the i-th token of the text is :name and is right after chars
NamedAfter(text, tokens, i, name, chars) ==
  LET p == TokenAt(tokens, i)
  IN /\ SubSeq(text, p + 1, wordEnd(text, p)) = name
     /\ p > Len(chars)
     /\ SubSeq(text, p - Len(chars), p - 1) = chars

\* the clause was compiled (no leaf value made the compiler throw)
ViewCompiled == ViewDone /\ out.kind \notin {"SyntaxError", "TypeError"}

\* C21: in a compiled clause the :name tokens are val1, val2, ... in text
\* order; the leaves, taken depth first across all nesting levels, take none
\* (isNull), two in a row (between) or one (any other) of them; the bind map
\* has exactly the names written into the text.
C21_PlaceholdersNumberedInLeafOrder ==
  ViewCompiled
    => \A leaves \in {ViewLeaves}, text \in {StrippedSql} :
         \A tokens \in {TokensIn(text)} :
           LET total == PlaceholdersBefore(leaves, Len(leaves) + 1)
           IN /\ Cardinality(tokens) = total
              /\ \A i \in 1..total : NamedAfter(text, tokens, i, BindName(i), <<>>)
              /\ DOMAIN bindParams.vals = {BindName(i) : i \in 1..total}
              /\ \A i \in 1..Len(leaves) :
                   LET leaf == leaves[i]
                       first == PlaceholdersBefore(leaves, i) + 1
                       lhs == NameChars(leaf.fact) \o <<" ">>
                                \o operatorToSQLString(leaf.operator) \o <<" ">>
                   IN CASE leaf.operator = "between" ->
                             /\ NamedAfter(text, tokens, first,
                                           BindName(first), lhs)
                             /\ NamedAfter(text, tokens, first + 1,
                                           BindName(first + 1),
                                           lhs \o <<":">> \o BindName(first)
                                             \o <<" ", "A", "N", "D", " ">>)
                        [] leaf.operator = "in" ->
                             NamedAfter(text, tokens, first, BindName(first),
                                        lhs \o <<"(">>)
                        [] leaf.operator = "equal" ->
                             NamedAfter(text, tokens, first, BindName(first),
                                        lhs)
                        [] OTHER -> TRUE

\* a nested group with a between leaf and one more leaf, and a leaf after
\* the group: :val1 AND :val2, :val3, then :val4
C21_Witness ==
  /\ ViewCompiled
  /\ out.kind = "ok"
  /\ viewConditions.kind = "all"
  /\ Len(viewConditions.items) = 2
  /\ viewConditions.items[1].kind = "any"
  /\ viewConditions.items[2].kind = "leaf"
  /\ Cardinality(TokensIn(sql)) = 4
  /\ NamedAfter(sql, TokensIn(sql), 4, BindName(4), <<"=", " ">>)

\* the column type and the raw value toBindValue was given, and its result
BoundType == keyType(stmtKeys, stmtValues[1].key)
BoundRaw == stmtValues[1].value
BoundResult == out.binds[1]

\* the raw value does not write a value of the column type (types without a
\* conversion take every value)
Unparsable(colType, raw) ==
  CASE colType = "numeric" ->
         ~(raw.kind = "scalar"
           \/ (raw.kind = "string" /\ Len(raw.s) > 0
               /\ \A k \in 1..Len(raw.s) : raw.s[k] \in Digits))
    [] colType = "boolean" ->
         ~(raw.kind = "string" /\ raw.s \in {<<"t">>, <<"f">>})
    [] colType \in {"date", "datetime"} ->
         ~(raw.kind = "string" /\ Len(raw.s) = 3 /\ raw.s[2] = "-")
    [] colType = "time" ->
         ~(raw.kind = "string" /\ Len(raw.s) = 3 /\ raw.s[2] = ":")
    [] OTHER -> FALSE

\* C22: toBindValue returns (it never throws); for a text-like column type
\* the result is the raw value, undefined and the empty string included; for
\* any other column type the result is null when the raw value is
\* undefined, null, the empty string or does not write a value of the type.
C22_ToBindValueCoercesOrNulls ==
  out.op = "toBindValue"
    => /\ out.kind = "ok"
       /\ isTextLike(BoundType) => BoundResult = BoundRaw
       /\ (/\ ~isTextLike(BoundType)
           /\ \/ BoundRaw.kind \in {"undefined", "null"}
              \/ BoundRaw = Str(<<>>)
              \/ Unparsable(BoundType, BoundRaw))
            => BoundResult = NullValue

\* the text x of a numeric column became null
C22_Witness ==
  /\ out.op = "toBindValue"
  /\ BoundType = "numeric"
  /\ BoundRaw = Str(<<"x">>)
  /\ BoundResult = NullValue

\* undefined of a text column was handed on unchanged
C22_TextWitness ==
  /\ out.op = "toBindValue"
  /\ BoundType = "text"
  /\ BoundRaw = Absent
  /\ BoundResult = Absent

\* the schemas of a name, by place
NamedLike(name) ==
  {i \in 1..Len(database.children) : database.children[i].name = name}

\* the schema the priority order picks: by database name, by user name,
\* public, the first child (0 when there is no schema)
Preferred ==
  IF conRes.database # "" /\ NamedLike(conRes.database) # {}
  THEN Least(NamedLike(conRes.database))
  ELSE IF conRes.user # "" /\ NamedLike(conRes.user) # {}
  THEN Least(NamedLike(conRes.user))
  ELSE IF NamedLike("public") # {} THEN Least(NamedLike("public"))
  ELSE IF Len(database.children) > 0 THEN 1 ELSE 0

\* C23: resetDefaultSchema flags the schema the priority order picks (and
\* puts it first); no other schema is flagged, whatever its name; a database
\* without schemas is left as it is.
C23_DefaultSchemaByPriority ==
  [][calls' = calls + 1
       => IF Preferred = 0 THEN database' = database
          ELSE /\ Len(database'.children) = Len(database.children)
               /\ database'.children[1] =
                    [database.children[Preferred] EXCEPT !.isDefault = TRUE]
               /\ \A i \in 2..Len(database'.children) :
                    /\ ~database'.children[i].isDefault
                    /\ database'.children[i].id # database.children[Preferred].id
                    /\ \E j \in 1..Len(database.children) :
                         database.children[j].id = database'.children[i].id]_vars

\* with database db and user usr configured, the second of two schemas db
\* stays unflagged, and so does the schema usr that came before both
C23_Witness ==
  /\ calls > 0
  /\ conRes = [database |-> "db", user |-> "usr"]
  /\ Len(database.children) = 3
  /\ database.children[1] = [id |-> 2, name |-> "db", isDefault |-> TRUE]
  /\ database.children[2] = [id |-> 1, name |-> "usr", isDefault |-> FALSE]
  /\ database.children[3] = [id |-> 3, name |-> "db", isDefault |-> FALSE]

\* the new rows that carry the compare-key value of an old row and come
\* after the first new row with that value
LaterDuplicates ==
  {j \in RowIds(rdh2) :
     \E i \in RowIds(rdh1) : MatchOf(i) # 0 /\ MatchOf(i) < j
                               /\ KeyValue(rdh2.rows[j]) = KeyValue(rdh1.rows[i])}

\* C24: after a successful diff every matched old row carries the Upd
\* annotations of its comparison with the first new row of its key, and no
\* others; the later new rows of that key carry neither Upd nor Add and are
\* in none of the sets the three counters count.
C24_FirstMatchWins ==
  DiffDone
    => /\ \A i \in RowIds(rdh1) :
            MatchOf(i) # 0 =>
              \A c \in Range(rdh1.keys) :
                AnnotationsOf(rdh1.rows[i], c, "Upd") =
                  IF Differ(i, MatchOf(i), c)
                  THEN UpdOf(ValueOf(rdh2.rows[MatchOf(i)], c))
                  ELSE <<>>
       /\ \A j \in LaterDuplicates :
            /\ ~HasType(rdh2.rows[j], "Upd")
            /\ ~HasType(rdh2.rows[j], "Add")
            /\ j \notin InsertedRows
       /\ res.inserted = Cardinality(InsertedRows)
       /\ res.updated = Cardinality(UpdatedRows)
       /\ res.deleted = Cardinality(DeletedRows)

\* an old row equal to the first new row of its key and different from the
\* second: nothing is counted and the second new row carries no annotation
C24_Witness ==
  /\ DiffDone
  /\ \E i \in RowIds(rdh1) : \E j \in LaterDuplicates :
       /\ KeyValue(rdh2.rows[j]) = KeyValue(rdh1.rows[i])
       /\ DifferingColumns(i, j) # {}
       /\ DifferingColumns(i, MatchOf(i)) = {}
       /\ ~HasDiffAnnotation(rdh2.rows[j])
  /\ res.updated = 0

\* the end of the run of digits after place p of a text
DigitsEnd(text, p) ==
  CHOOSE e \in p..Len(text) :
    /\ \A k \in (p + 1)..e : \E n \in 0..9 : Decimal(n) = <<text[k]>>
    /\ e < Len(text) => \A n \in 0..9 : Decimal(n) # <<text[e + 1]>>

RECURSIVE WrittenFrom(_, _)
\* the numbers N of the $N of a text from place p on, in text order
WrittenFrom(text, p) ==
  IF p > Len(text) THEN <<>>
  ELSE IF text[p] = "$"
  THEN LET e == DigitsEnd(text, p)
           n == CHOOSE m \in 0..(10 * Len(text)) :
                  Decimal(m) = SubSeq(text, p + 1, e)
       IN <<n>> \o WrittenFrom(text, e + 1)
  ELSE WrittenFrom(text, p + 1)

RECURSIVE SourcesFrom(_)
\* what the tokens of the scanned query from place p on stand for, in text
\* order: a name, or the j-th element of an array name
SourcesFrom(p) ==
  IF p > Len(StrippedSql) THEN <<>>
  ELSE IF p \in Tokens
  THEN [j \in 1..SizeOf(NameAt(p)) |-> [name |-> NameAt(p), j |-> j]]
         \o SourcesFrom(wordEnd(StrippedSql, p) + 1)
  ELSE SourcesFrom(p + 1)

\* the value a source stands for
SourceValue(src) ==
  IF IsArrayName(src.name) THEN bindOf(bindParams, src.name).elems[src.j]
  ELSE bindOf(bindParams, src.name)

\* C25: positioned mode with every referenced name bound: the $N of the
\* returned text stand, in text order, for the parameters (and array
\* elements) of the query; a number is new exactly when its parameter is,
\* and then it is the next one, starting at 1; two $N are equal exactly when
\* they stand for the same parameter (or the same element of it); the bind
\* array is as long as the highest number, and binds[N-1] is the value the
\* $N stands for, so none of its slots is unset.
C25_PositionsContiguousAndBound ==
  PositionedWithAllBound
    => /\ out.kind = "ok"
       /\ \A written \in {WrittenFrom(out.query, 1)}, sources \in {SourcesFrom(1)} :
            /\ Len(written) = Len(sources)
            /\ {written[m] : m \in 1..Len(written)} = 1..Len(out.binds)
            /\ \A m \in 1..Len(written) :
                 /\ written[m] \in 1..Len(out.binds)
                 /\ out.binds[written[m]] = SourceValue(sources[m])
                 /\ (\A n \in 1..(m - 1) : sources[n] # sources[m])
                      => written[m] =
                           Cardinality({written[n] : n \in 1..(m - 1)}) + 1
                 /\ \A n \in 1..Len(written) :
                      written[m] = written[n] <=> sources[m] = sources[n]
       /\ \A k \in 1..Len(out.binds) : out.binds[k].kind \notin {"unset", "undefined"}

\* :a:b:a with {a: [1, 2], b: 7} became $1,$2$3$1,$2 with binds [1, 2, 7]
C25_Witness ==
  /\ out.op = "positioned"
  /\ sql = <<":", "a", ":", "b", ":", "a">>
  /\ out.query = <<"$", "1", ",", "$", "2", "$", "3", "$", "1", ",", "$", "2">>
  /\ out.binds = <<Scalar(1), Scalar(2), Scalar(7)>>

Built == out.op \in {"insert-positioned", "insert-simple", "update-positioned",
                     "update-simple", "delete-positioned", "delete-simple"}
BuiltPositioned ==
  out.op \in {"insert-positioned", "update-positioned", "delete-positioned"}
BuiltInsert == out.op \in {"insert-positioned", "insert-simple"}
BuiltUpdate == out.op \in {"update-positioned", "update-simple"}

\* the value an entry of the values or conditions is bound as
Coerced(entry) == toBindValue(keyType(stmtKeys, entry.key), entry.value)

RECURSIVE WithoutNulls(_)
\* the entries whose value is not bound as null, in order
WithoutNulls(entries) ==
  IF Len(entries) = 0 THEN <<>>
  ELSE (IF Coerced(Head(entries)) = NullValue THEN <<>>
        ELSE <<Head(entries)>>) \o WithoutNulls(Tail(entries))

\* the entries a built statement is said to bind, in text order
BoundEntries ==
  IF BuiltInsert THEN WithoutNulls(stmtValues)
  ELSE IF BuiltUpdate THEN stmtValues \o stmtConditions
  ELSE stmtConditions

\* the place of the k-th placeholder of a text
PlaceholderAt(text, k) ==
  CHOOSE p \in Placeholders(text) :
    Cardinality({q \in Placeholders(text) : q < p}) = k - 1

\* the column name written before the `=` that precedes place p
ColumnBefore(text, p) ==
  LET e == CHOOSE q \in 1..(p - 1) :
             /\ text[q] \notin {" ", "="}
             /\ \A r \in (q + 1)..(p - 1) : text[r] \in {" ", "="}
      b == CHOOSE q \in 1..e :
             /\ \A r \in q..e : IsWord(text[r])
             /\ q > 1 => ~IsWord(text[q - 1])
  IN SubSeq(text, b, e)

\* the k-th name of the column list of an INSERT
InsertColumn(text, k) ==
  LET open == Least({q \in 1..Len(text) : text[q] = "("})
      close == Least({q \in 1..Len(text) : text[q] = ")"})
  IN SplitAt(SubSeq(text, open + 1, close - 1), ",")[k]

\* the column the k-th placeholder of the built statement belongs to
ColumnOfPlaceholder(k) ==
  IF BuiltInsert THEN InsertColumn(out.query, k)
  ELSE ColumnBefore(out.query, PlaceholderAt(out.query, k))

\* C26: in a built insert, update or delete statement the k-th placeholder
\* in text order belongs to the k-th bound column and binds[k-1] is that
\* column's coerced value; there are as many placeholders as binds; in
\* positioned style they are $1..$n in text order; insert leaves out the
\* columns coerced to null, update (SET list, then WHERE list) and delete
\* keep every column and bind null.
C26_PlaceholdersMatchBinds ==
  Built
    => \A entries \in {BoundEntries} :
         /\ out.kind = "ok"
         /\ Cardinality(Placeholders(out.query)) = Len(out.binds)
         /\ Len(out.binds) = Len(entries)
         /\ \A k \in 1..Len(entries) :
              /\ ColumnOfPlaceholder(k) = NameChars(entries[k].key)
              /\ out.binds[k] = Coerced(entries[k])
         /\ IF BuiltPositioned
            THEN WrittenFrom(out.query, 1) = [k \in 1..Len(entries) |-> k]
            ELSE \A p \in Placeholders(out.query) : out.query[p] = "?"
         /\ BuiltUpdate =>
              \A k \in 1..Len(entries) :
                (PlaceholderAt(out.query, k) <
                   Least({q \in 1..(Len(out.query) - 4) :
                            SubSeq(out.query, q, q + 4)
                              = <<"W", "H", "E", "R", "E">>}))
                  <=> k <= Len(stmtValues)

\* an UPDATE numbered $1..$4 through the SET and the WHERE list, a null
\* bound among its values
C26_Witness ==
  /\ out.op = "update-positioned"
  /\ Len(stmtValues) = 2
  /\ Len(stmtConditions) = 2
  /\ WrittenFrom(out.query, 1) = <<1, 2, 3, 4>>
  /\ \E k \in 1..4 : out.binds[k] = NullValue

\* an INSERT that leaves out its first column, coerced to null, and writes
\* $1 for the second
C26_InsertWitness ==
  /\ out.op = "insert-positioned"
  /\ Len(stmtValues) = 2
  /\ Coerced(stmtValues[1]) = NullValue
  /\ WrittenFrom(out.query, 1) = <<1>>
  /\ out.binds = <<Coerced(stmtValues[2])>>

(***************************************************************************)
(* flowTransaction: reading the calls of one activation                    *)
(***************************************************************************)

\* the positions in the log of the calls of one name
CallsOf(name) == {i \in 1..Len(log) : log[i].call = name}

SomethingThrew == \E i \in 1..Len(log) : log[i].outcome = "threw"

\* flowTransaction has returned or thrown
FlowDone == flow.pc = "done"

ConnectSucceeded == \E i \in CallsOf("connect") : log[i].outcome = "returned"

ConnectReported == \E i \in CallsOf("connect") : log[i].outcome = "reported"

\* the control type the caller asked for: rollbackOnError without options
AskedControlType ==
  IF flow.options.given THEN flow.options.transactionControlType
  ELSE "rollbackOnError"

CallbackReturned == \E i \in CallsOf("f") : log[i].outcome = "returned"

\* the call made right after the callback came back
CallAfterF == log[(CHOOSE i \in CallsOf("f") : TRUE) + 1]

\* C27: once a flowTransaction call in which the callback ran is over, the
\* call made right after the callback is commit when the callback returned
\* and the control type is rollbackOnError (also when no option was given)
\* or alwaysCommit, rollback when it returned under alwaysRollback, rollback
\* when it threw under rollbackOnError or alwaysRollback, and commit when it
\* threw under alwaysCommit; if that call returns, it is the only commit or
\* rollback of the call. When connect succeeded and flowTransaction returns
\* a result, its ok is true exactly when no call threw.
C27_EndsByControlType ==
  /\ (FlowDone /\ CallsOf("f") # {}) =>
       /\ CallAfterF.call =
            IF CallbackReturned
            THEN (IF AskedControlType = "alwaysRollback" THEN "rollback"
                  ELSE "commit")
            ELSE (IF AskedControlType = "alwaysCommit" THEN "commit"
                  ELSE "rollback")
       /\ CallAfterF.outcome = "returned" =>
            Cardinality(CallsOf("commit") \cup CallsOf("rollback")) = 1
  /\ (FlowDone /\ ConnectSucceeded /\ flow.returned.kind = "result") =>
       (flow.returned.ok <=> ~SomethingThrew)

\* no option given, the callback threw, the transaction was rolled back and
\* ok is false
C27_Witness ==
  /\ FlowDone
  /\ ~flow.options.given
  /\ Call("f", "threw") \in {log[i] : i \in 1..Len(log)}
  /\ CallAfterF = Call("rollback", "returned")
  /\ flow.returned = Resolved(FALSE, ErrorOf("f"), FALSE)

\* alwaysCommit commits after a callback that threw
C27_AlwaysCommitWitness ==
  /\ FlowDone
  /\ flow.options = Options("alwaysCommit")
  /\ Call("f", "threw") \in {log[i] : i \in 1..Len(log)}
  /\ CallAfterF = Call("commit", "returned")
  /\ flow.returned.kind = "result" /\ ~flow.returned.ok

\* the callback returned, commit returned, and ok is true
C27_CommitWitness ==
  /\ FlowDone
  /\ AskedControlType = "rollbackOnError"
  /\ CallbackReturned
  /\ flow.returned = Resolved(TRUE, "", TRUE)

\* C28: in every flowTransaction call whose connect succeeded, begin is
\* called once and then exactly one of commit and rollback is called, once,
\* before the closing disconnect.
C28_OneEndingCall ==
  (FlowDone /\ ConnectSucceeded) =>
    /\ Cardinality(CallsOf("begin")) = 1
    /\ Cardinality(CallsOf("commit") \cup CallsOf("rollback")) = 1
    /\ \A b \in CallsOf("begin"), e \in CallsOf("commit") \cup CallsOf("rollback") :
         b < e /\ e < Len(log)

\* the commit or rollback that ended the try block threw
EndingCallThrewInTry ==
  /\ CallbackReturned
  /\ CallAfterF.outcome = "threw"

\* what holds instead: one begin, and one commit or rollback unless the
\* commit or rollback of the try block threw, in which case the catch block
\* makes a second one
C28_OneEndingCallUnlessItThrew ==
  (FlowDone /\ ConnectSucceeded) =>
    /\ Cardinality(CallsOf("begin")) = 1
    /\ Cardinality(CallsOf("commit") \cup CallsOf("rollback")) =
         IF EndingCallThrewInTry THEN 2 ELSE 1

\* a commit that threw is followed by a rollback in the same call
C28_CommitThenRollback ==
  /\ FlowDone
  /\ CallsOf("commit") # {}
  /\ CallsOf("rollback") # {}

\* under alwaysCommit a commit that threw is followed by a second commit
C28_CommitTwice ==
  /\ FlowDone
  /\ Cardinality(CallsOf("commit")) = 2

\* C29: flowTransaction's first call is disconnect when the driver is
\* connected and connect otherwise, and connect follows a disconnect that
\* returned; after connect reported an error the call is over, has returned
\* ok false with that message, and has called none of begin, the callback,
\* commit and rollback; once a call whose connect succeeded is over,
\* disconnect has been called exactly once after that connect, as its last
\* call.
C29_ConnectsAndAlwaysDisconnects ==
  [][/\ flow.pc = "entry" =>
          /\ Len(log') = 1
          /\ log'[1].call = IF isConnected THEN "disconnect" ELSE "connect"
     /\ flow.pc = "connect" =>
          /\ log = <<Call("disconnect", "returned")>>
          /\ Len(log') = 2 /\ log'[2].call = "connect"
     /\ ConnectReported' =>
          /\ flow'.pc = "done"
          /\ flow'.returned = Resolved(FALSE, ErrorOf("connect"), FALSE)
          /\ \A name \in {"begin", "f", "commit", "rollback"} :
               CallsOf(name)' = {}
     /\ (FlowDone' /\ ConnectSucceeded') =>
          /\ \A c \in CallsOf("connect")' :
               Cardinality({d \in CallsOf("disconnect")' : d > c}) = 1
          /\ log'[Len(log')].call = "disconnect"]_vars

\* a connected driver is disconnected, connected again, and disconnected
\* once more although the rollback of the catch block threw
C29_Witness ==
  /\ FlowDone
  /\ Len(log) > 2
  /\ log[1] = Call("disconnect", "returned")
  /\ log[2] = Call("connect", "returned")
  /\ Call("rollback", "threw") \in {log[i] : i \in 1..Len(log)}
  /\ log[Len(log)].call = "disconnect"
  /\ flow.returned.kind = "rejected"

\* connect reported an error
C29_ConnectErrorWitness ==
  /\ FlowDone
  /\ ConnectReported
  /\ flow.returned = Resolved(FALSE, ErrorOf("connect"), FALSE)

\* C30: when normalizePositionedParametersQuery or
\* normalizeSimpleParametersQuery is called without a bind map on SQL that
\* holds a named parameter, the call completes without error and reports no
\* missing parameter.
C30_NoBindMapCompletes ==
  (out.op \in {"positioned", "simple"} /\ ~bindParams.given /\ Tokens # {})
    => out.kind = "ok" /\ out.missing = <<>>

\* what holds instead: without a bind map the first named parameter makes
\* the call throw a TypeError, and only SQL without named parameters is
\* returned (with no binds)
C30_NoBindMapThrowsOnFirstName ==
  (out.op \in {"positioned", "simple"} /\ ~bindParams.given)
    => IF Tokens # {} THEN out = Output(out.op, TypeError)
       ELSE out.kind = "ok" /\ out.binds = <<>>

\* :a normalized without a bind map
C30_NoBindMapWitness ==
  /\ out.op = "positioned"
  /\ ~bindParams.given
  /\ sql = <<":", "a">>
  /\ out.kind = "TypeError"

====
